---- MODULE Spec2Model ----
(***************************************************************************)
(* Model of the message categorizer: the bounded Decision Loop of          *)
(* categorizeMessage (src/src/categorizer.js), the tool handlers it calls  *)
(* (toolHandlers), and the Topic Store / ConversationState writes of       *)
(* createTopicInDB and storeMessageWithTopic (src/src/services/database.js)*)
(* Several categorizeMessage calls may be in flight at once; they          *)
(* interleave at the awaits of the code.                                   *)
(***************************************************************************)
EXTENDS Integers, Sequences, FiniteSets, TLC

\* ------------------------------------------------------------------ bounds

\* Number of categorizeMessage calls that may be in flight at once
\* (SpecConcurrent).
NumProcs == 2
\* Number of categorizeMessage calls made one after the other (Spec).
MaxCalls == 2
\* Number of categorizeMessage calls made in a behaviour of SpecConcurrent.
MaxConcurrentCalls == 3
\* Largest number of tool calls the Planner puts in one turn.
MaxToolCalls == 2

Procs == 1..NumProcs

\* ------------------------------------------------------- program constants

\* categorizeMessage: const { verbose = true, maxIterations = 5 } = options
DefaultMaxIterations == 5
\* categorizeMessage: message.text.length < 15
ShortMessageLength == 15
\* storeMessageWithTopic / categorizeMessage: truncate(message.text, 100)
SampleTruncateLength == 100
\* storeMessageWithTopic: [...existingSamples, ...].slice(-10)
MaxSampleMessages == 10
\* storeMessageWithTopic: recentMessages.length > 20
MaxRecentMessages == 20

\* ------------------------------------------------------------ text helpers

RECURSIVE Rep(_, _)
\* s repeated n times (the model's way to write long texts)
Rep(s, n) == IF n = 0 THEN "" ELSE s \o Rep(s, n - 1)

\* The i-th character of s, as a one-character string.
CharAt(s, i) == SubSeq(s, i, i)

\* JavaScript whitespace as matched by String.prototype.trim
IsSpace(c) == c \in {" ", "\t", "\n"}

RECURSIVE TrimStart(_)
TrimStart(s) ==
    IF Len(s) = 0 THEN s
    ELSE IF IsSpace(CharAt(s, 1)) THEN TrimStart(SubSeq(s, 2, Len(s)))
    ELSE s

RECURSIVE TrimEnd(_)
TrimEnd(s) ==
    IF Len(s) = 0 THEN s
    ELSE IF IsSpace(CharAt(s, Len(s))) THEN TrimEnd(SubSeq(s, 1, Len(s) - 1))
    ELSE s

\* String.prototype.trim
Trim(s) == TrimEnd(TrimStart(s))

\* truncate(text, maxLength) of utils/text.js
truncate(text, maxLength) ==
    IF text = "" THEN ""
    ELSE IF Len(text) > maxLength THEN SubSeq(text, 1, maxLength) \o "..."
    ELSE text

\* -------------------------------------------------------------- normalizer

UpperCase == "ABCDEFGHIJKLMNOPQRSTUVWXYZ"
LowerCase == "abcdefghijklmnopqrstuvwxyz"
Digits == "0123456789"

\* The characters of s, as a set of one-character strings.
CharsOf(s) == {CharAt(s, i) : i \in 1..Len(s)}

UpperChars == CharsOf(UpperCase)
\* The lower-case letter of every upper-case letter.
LowerOf ==
    [c \in UpperChars |->
        CharAt(LowerCase, CHOOSE i \in 1..Len(UpperCase) : CharAt(UpperCase, i) = c)]

\* String.prototype.toLowerCase on one character
LowerChar(c) == IF c \in UpperChars THEN LowerOf[c] ELSE c

RECURSIVE ToLowerCase(_)
ToLowerCase(s) ==
    IF Len(s) = 0 THEN s
    ELSE LowerChar(CharAt(s, 1)) \o ToLowerCase(SubSeq(s, 2, Len(s)))

AlnumChars == CharsOf(LowerCase) \cup CharsOf(Digits)
WordChars == AlnumChars \cup {"_"}

\* \w of a regular expression, on lower-case text
IsWordChar(c) == c \in WordChars

\* [a-z0-9] of the normalizer
IsAlnum(c) == c \in AlnumChars

\* ABBREVIATIONS of config/constants.js.  (The table of smart-categorizer.js
\* has two more entries, msg and msgs; no text of this model holds them.)
ABBREVIATIONS ==
    << <<"db", "database">>,
       <<"k8s", "kubernetes">>,
       <<"auth", "authentication">>,
       <<"api", "application programming interface">>,
       <<"ui", "user interface">>,
       <<"ux", "user experience">>,
       <<"fe", "frontend">>,
       <<"be", "backend">>,
       <<"devops", "development operations">>,
       <<"ci", "continuous integration">>,
       <<"cd", "continuous deployment">>,
       <<"pr", "pull request">>,
       <<"mr", "merge request">>,
       <<"env", "environment">>,
       <<"config", "configuration">>,
       <<"infra", "infrastructure">>,
       <<"perf", "performance">>,
       <<"prod", "production">>,
       <<"dev", "development">>,
       <<"qa", "quality assurance">> >>

\* The length of the run of word characters that s starts with.
RECURSIVE WordRun(_)
WordRun(s) ==
    IF Len(s) = 0 \/ ~IsWordChar(CharAt(s, 1)) THEN 0
    ELSE 1 + WordRun(SubSeq(s, 2, Len(s)))

\* normalized.replace(new RegExp(`\\b${abbr}\\b`, 'gi'), full): every run of
\* word characters that is abbr becomes full.
RECURSIVE ReplaceWord(_, _, _)
ReplaceRun(s, n, abbr, full) ==
    IF n = 0 THEN CharAt(s, 1) \o ReplaceWord(SubSeq(s, 2, Len(s)), abbr, full)
    ELSE (IF SubSeq(s, 1, n) = abbr THEN full ELSE SubSeq(s, 1, n))
         \o ReplaceWord(SubSeq(s, n + 1, Len(s)), abbr, full)

ReplaceWord(s, abbr, full) ==
    IF Len(s) = 0 THEN s ELSE ReplaceRun(s, WordRun(s), abbr, full)

\* for (const [abbr, full] of Object.entries(ABBREVIATIONS)) ...  (nothing is
\* replaced in an empty text)
RECURSIVE ExpandAbbreviations(_, _)
ExpandAbbreviations(s, i) ==
    IF i > Len(ABBREVIATIONS) \/ Len(s) = 0 THEN s
    ELSE ExpandAbbreviations(ReplaceWord(s, ABBREVIATIONS[i][1], ABBREVIATIONS[i][2]),
                             i + 1)

\* normalized.replace(/[^a-z0-9\s]/g, ' ')
RECURSIVE StripSpecial(_)
StripSpecial(s) ==
    IF Len(s) = 0 THEN s
    ELSE (IF IsAlnum(CharAt(s, 1)) \/ IsSpace(CharAt(s, 1)) THEN CharAt(s, 1) ELSE " ")
         \o StripSpecial(SubSeq(s, 2, Len(s)))

\* normalized.replace(/\s+/g, ' ')
RECURSIVE CollapseSpaces(_)
CollapseSpaces(s) ==
    IF Len(s) = 0 THEN s
    ELSE IF IsSpace(CharAt(s, 1)) THEN
        " " \o CollapseSpaces(TrimStart(s))
    ELSE CharAt(s, 1) \o CollapseSpaces(SubSeq(s, 2, Len(s)))

\* normalizeText(text) of utils/text.js
normalizeText(text) ==
    IF text = "" THEN ""
    ELSE Trim(CollapseSpaces(StripSpecial(
             ExpandAbbreviations(Trim(ToLowerCase(text)), 1))))

\* -------------------------------------------------------- similarity engine

\* A score is the fraction num/den (den > 0).
Frac(n, d) == [num |-> n, den |-> d]
FracGE(a, b) == a.num * b.den >= b.num * a.den
FracGT(a, b) == a.num * b.den > b.num * a.den
FracLT(a, b) == a.num * b.den < b.num * a.den

Min3(a, b, c) == IF a <= b /\ a <= c THEN a ELSE IF b <= c THEN b ELSE c

\* One row of the dp table of levenshteinDistance: row i (for the character ch
\* of str1) from row i - 1.  Position j + 1 of a row holds dp[i][j]; a row is
\* complete when it is as long as the row before it.
RECURSIVE LevenshteinRow(_, _, _, _)
LevenshteinRow(prev, ch, str2, row) ==
    IF Len(row) = Len(prev) THEN row
    ELSE LevenshteinRow(prev, ch, str2,
             Append(row, IF ch = CharAt(str2, Len(row))
                         THEN prev[Len(row)]
                         ELSE 1 + Min3(prev[Len(row) + 1], row[Len(row)],
                                       prev[Len(row)])))

\* The rows after prev, which is row prev[1] (dp[i][0] = i), up to the last
\* one, whose last position is the distance.
RECURSIVE LevenshteinRows(_, _, _)
LevenshteinRows(str1, str2, prev) ==
    IF prev[1] = Len(str1) THEN prev[Len(prev)]
    ELSE LevenshteinRows(str1, str2,
             LevenshteinRow(prev, CharAt(str1, prev[1] + 1), str2, <<prev[1] + 1>>))

\* levenshteinDistance(str1, str2)
levenshteinDistance(str1, str2) ==
    LevenshteinRows(str1, str2, [j \in 1..(Len(str2) + 1) |-> j - 1])

Max(a, b) == IF a >= b THEN a ELSE b

\* fuzzySimilarity from its normalized strings s1 and s2 on
NormalizedSimilarity(s1, s2) ==
    IF s1 = s2 THEN Frac(1, 1)
    ELSE IF s1 = "" \/ s2 = "" THEN Frac(0, 1)
    ELSE Frac(Max(Len(s1), Len(s2)) - levenshteinDistance(s1, s2),
              Max(Len(s1), Len(s2)))

\* fuzzySimilarity(str1, str2)
fuzzySimilarity(str1, str2) ==
    NormalizedSimilarity(normalizeText(str1), normalizeText(str2))

\* keywordOverlap from its two sets of normalized keywords on
SetOverlap(set1, set2) ==
    Frac(Cardinality({k1 \in set1 :
                         \E k2 \in set2 :
                             k1 = k2 \/ FracGT(fuzzySimilarity(k1, k2), Frac(8, 10))}),
         Cardinality(set1 \cup set2))

\* keywordOverlap(keywords1, keywords2)
keywordOverlap(keywords1, keywords2) ==
    IF Len(keywords1) = 0 \/ Len(keywords2) = 0 THEN Frac(0, 1)
    ELSE SetOverlap({normalizeText(keywords1[i]) : i \in 1..Len(keywords1)},
                    {normalizeText(keywords2[i]) : i \in 1..Len(keywords2)})

\* --------------------------------------------------------- retrieval engine

\* STOP_WORDS of config/constants.js (the words of the Latin alphabet)
STOP_WORDS ==
    {"the", "a", "an", "is", "are", "was", "were", "be", "been", "being",
     "have", "has", "had", "do", "does", "did", "will", "would", "could",
     "should", "may", "might", "must", "can", "this", "that", "these",
     "those", "i", "you", "he", "she", "it", "we", "they", "what", "which",
     "who", "when", "where", "why", "how", "all", "each", "every", "both",
     "few", "more", "most", "other", "some", "such", "no", "nor", "not",
     "only", "own", "same", "so", "than", "too", "very", "just", "and",
     "but", "if", "or", "because", "as", "until", "while", "of", "at",
     "by", "for", "with", "about", "against", "between", "into", "through",
     "during", "before", "after", "above", "below", "to", "from", "up",
     "down", "in", "out", "on", "off", "over", "under", "again", "further",
     "then", "once", "here", "there", "ok", "okay", "yes"}

\* The length of the run of non-blank characters that s starts with.
RECURSIVE NonBlankRun(_)
NonBlankRun(s) ==
    IF Len(s) = 0 \/ IsSpace(CharAt(s, 1)) THEN 0
    ELSE 1 + NonBlankRun(SubSeq(s, 2, Len(s)))

\* normalizedText.split(/\s+/): the words of a normalized text (single blanks,
\* none at the ends); the empty text gives the one word "".
RECURSIVE SplitWords(_)
SplitRest(s, n) ==
    IF n = Len(s) THEN <<s>>
    ELSE <<SubSeq(s, 1, n)>> \o SplitWords(SubSeq(s, n + 2, Len(s)))

SplitWords(s) == SplitRest(s, NonBlankRun(s))

\* .filter(word => word.length > 2 && !STOP_WORDS.has(word))
IsKeyword(word) == Len(word) > 2 /\ word \notin STOP_WORDS

\* The number of times word occurs in words.
Frequency(words, word) == Cardinality({i \in 1..Len(words) : words[i] = word})

\* Object.entries(freq): the distinct words in the order of their first
\* occurrence (no word is a number), each with its frequency.
RECURSIVE FreqEntries(_, _)
FreqEntries(words, i) ==
    IF i > Len(words) THEN <<>>
    ELSE (IF \E j \in 1..(i - 1) : words[j] = words[i] THEN <<>>
          ELSE <<[word |-> words[i], count |-> Frequency(words, words[i])]>>)
         \o FreqEntries(words, i + 1)

\* .sort((a, b) => b[1] - a[1]): e goes after the entries that are not rarer.
RECURSIVE InsertByCount(_, _)
InsertByCount(sorted, e) ==
    IF Len(sorted) = 0 THEN <<e>>
    ELSE IF Head(sorted).count >= e.count
         THEN <<Head(sorted)>> \o InsertByCount(Tail(sorted), e)
         ELSE <<e>> \o sorted

RECURSIVE SortByCount(_, _)
SortByCount(entries, i) ==
    IF i = 0 THEN <<>>
    ELSE InsertByCount(SortByCount(entries, i - 1), entries[i])

\* The keywords kept by extractKeywords: .slice(0, 10)
MaxKeywords == 10

\* .slice(0, 10).map(([word]) => word)
KeywordsOf(entries) ==
    [i \in 1..(IF Len(entries) < MaxKeywords THEN Len(entries) ELSE MaxKeywords) |->
        entries[i].word]

FilterKeywords(words) == SelectSeq(words, IsKeyword)

SortedEntries(entries) == SortByCount(entries, Len(entries))

\* extractKeywords(text)
extractKeywords(text) ==
    IF text = "" THEN <<>>
    ELSE KeywordsOf(SortedEntries(FreqEntries(
             FilterKeywords(SplitWords(normalizeText(text))), 1)))

\* stopWords of the extractKeywords of smart-categorizer.js: the same words
\* without "ok", "okay" and "yes"
stopWords == STOP_WORDS \ {"ok", "okay", "yes"}

IsValidatorKeyword(word) == Len(word) > 2 /\ word \notin stopWords

\* extractKeywords(text) of smart-categorizer.js
ValidatorKeywords(text) ==
    IF text = "" THEN <<>>
    ELSE KeywordsOf(SortedEntries(FreqEntries(
             SelectSeq(SplitWords(normalizeText(text)), IsValidatorKeyword), 1)))

\* RRF_K of config/constants.js
RRF_K == 60
\* rank of a result that carries no rank: ... || 999
MissingRank == 999
\* find_topics: the limit of each of its searches
SearchLimit == 15
\* find_topics: fusedResults.slice(0, 10)
MaxMatches == 10
\* calculateConfidence: Math.min(topic.rrfScore * 20, 1)
RrfScale == 20
\* calculateConfidence: Math.min((topic.messageCount || 0) / 50, 1)
ActiveTopicMessages == 50

RECURSIVE GCD(_, _)
GCD(a, b) == IF b = 0 THEN a ELSE GCD(b, a % b)

\* The fraction n/d in lowest terms.
Reduced(n, d) == Frac(n \div GCD(n, d), d \div GCD(n, d))
FracAdd(a, b) == Reduced(a.num * b.den + b.num * a.den, a.den * b.den)
FracMul(a, b) == Reduced(a.num * b.num, a.den * b.den)
FracEq(a, b) == Reduced(a.num, a.den) = Reduced(b.num, b.den)
\* a >= b, compared over the least common denominator
FracAtLeast(a, b) ==
    a.num * (b.den \div GCD(a.den, b.den)) >= b.num * (a.den \div GCD(a.den, b.den))
\* Math.min(a, b)
FracMin(a, b) == IF FracLT(b, a) THEN b ELSE a

\* A result of a search: the id of the topic the Topic Store returned and the
\* rank the search gave it (0: the property is missing).
SearchResult(id, hybridRank, vectorRank, bm25Rank) ==
    [id |-> id, hybridRank |-> hybridRank, vectorRank |-> vectorRank,
     bm25Rank |-> bm25Rank]

\* hybridSearchTopics, semanticSearchTopics and keywordSearchTopics when the
\* Topic Store answers with the topics ids, best first: .map((topic, index) =>
\* ({ ...topic, hybridRank: index + 1, ... }))
hybridSearchTopics(ids) == [i \in 1..Len(ids) |-> SearchResult(ids[i], i, 0, 0)]
semanticSearchTopics(ids) == [i \in 1..Len(ids) |-> SearchResult(ids[i], 0, i, 0)]
keywordSearchTopics(ids) == [i \in 1..Len(ids) |-> SearchResult(ids[i], 0, 0, i)]

\* const rank = topic.hybridRank || topic.vectorRank || topic.bm25Rank || 999
RankOf(topic) ==
    IF topic.hybridRank # 0 THEN topic.hybridRank
    ELSE IF topic.vectorRank # 0 THEN topic.vectorRank
    ELSE IF topic.bm25Rank # 0 THEN topic.bm25Rank
    ELSE MissingRank

\* topicScores.set(id, (topicScores.get(id) || 0) + rrfScore): scores is the
\* Map's entries in insertion order.
AddScore(scores, id, rrfScore) ==
    IF \E i \in 1..Len(scores) : scores[i].id = id
    THEN [i \in 1..Len(scores) |->
             IF scores[i].id = id
             THEN [scores[i] EXCEPT !.rrfScore = FracAdd(@, rrfScore)]
             ELSE scores[i]]
    ELSE Append(scores, [id |-> id, rrfScore |-> FracAdd(Frac(0, 1), rrfScore)])

\* The body of the inner loop of reciprocalRankFusion (id 0: no id, skipped).
ScoreResult(scores, topic, k) ==
    IF topic.id = 0 THEN scores
    ELSE AddScore(scores, topic.id, Frac(1, k + RankOf(topic)))

\* for (const topic of results): the first i results of a list
RECURSIVE ScoreResults(_, _, _, _)
ScoreResults(scores, results, i, k) ==
    IF i = 0 THEN scores
    ELSE ScoreResult(ScoreResults(scores, results, i - 1, k), results[i], k)

\* for (const results of searchResults): the first n lists
RECURSIVE ScoreLists(_, _, _)
ScoreLists(searchResults, n, k) ==
    IF n = 0 THEN <<>>
    ELSE ScoreResults(ScoreLists(searchResults, n - 1, k), searchResults[n],
                      Len(searchResults[n]), k)

\* A sort that puts an entry before the entries of the same score.
RECURSIVE InsertBeforeTies(_, _)
InsertBeforeTies(sorted, x) ==
    IF Len(sorted) = 0 THEN <<x>>
    ELSE IF FracAtLeast(Head(sorted).rrfScore, x.rrfScore)
            /\ ~FracEq(Head(sorted).rrfScore, x.rrfScore)
         THEN <<Head(sorted)>> \o InsertBeforeTies(Tail(sorted), x)
         ELSE <<x>> \o sorted

\* .sort((a, b) => b[1] - a[1]): x goes after the entries that are not smaller.
RECURSIVE InsertByRrf(_, _)
InsertByRrf(sorted, x) ==
    IF Len(sorted) = 0 THEN <<x>>
    ELSE IF FracAtLeast(Head(sorted).rrfScore, x.rrfScore)
         THEN <<Head(sorted)>> \o InsertByRrf(Tail(sorted), x)
         ELSE <<x>> \o sorted

RECURSIVE SortByRrf(_, _)
SortByRrf(scores, i) ==
    IF i = 0 THEN <<>>
    ELSE InsertByRrf(SortByRrf(scores, i - 1), scores[i])

\* reciprocalRankFusion(searchResults, k): the fused entries (id and rrfScore;
\* the topic's data are those of the Topic Store)
reciprocalRankFusion(searchResults, k) ==
    SortByRrf(ScoreLists(searchResults, Len(searchResults), k),
              Len(ScoreLists(searchResults, Len(searchResults), k)))

\* A confidence that adds its factors without their weights.
UnweightedConfidence(rrfNormalized, kwOverlap, nameSimilarity, recencyBoost) ==
    FracAdd(FracAdd(FracAdd(rrfNormalized, kwOverlap), nameSimilarity), recencyBoost)

\* (rrfNormalized * 0.4) + (kwOverlap * 0.3) + (nameSimilarity * 0.2) +
\* (recencyBoost * 0.1)
WeightedConfidence(rrfNormalized, kwOverlap, nameSimilarity, recencyBoost) ==
    FracAdd(FracAdd(FracAdd(FracMul(rrfNormalized, Frac(4, 10)),
                            FracMul(kwOverlap, Frac(3, 10))),
                    FracMul(nameSimilarity, Frac(2, 10))),
            FracMul(recencyBoost, Frac(1, 10)))

\* calculateConfidence(topic, query, messageKeywords).factors
ConfidenceFactors(topic, query, messageKeywords) ==
    [rrfScore |-> FracMin(FracMul(topic.rrfScore, Frac(RrfScale, 1)), Frac(1, 1)),
     keywordOverlap |-> keywordOverlap(messageKeywords, topic.keywords),
     nameSimilarity |-> fuzzySimilarity(query, topic.name),
     recencyBoost |-> FracMin(Frac(topic.messageCount, ActiveTopicMessages), Frac(1, 1))]

\* The weighted average of calculateConfidence from its factors.
ConfidenceOf(factors) ==
    WeightedConfidence(factors.rrfScore, factors.keywordOverlap,
                       factors.nameSimilarity, factors.recencyBoost)

\* calculateConfidence(topic, query, messageKeywords).confidence
calculateConfidence(topic, query, messageKeywords) ==
    ConfidenceOf(ConfidenceFactors(topic, query, messageKeywords))

\* The digits of a decimal expansion: n is the number so far, r the remainder.
RECURSIVE Decimals(_, _, _, _)
Decimals(n, r, den, digits) ==
    IF digits = 0 THEN (IF 2 * r >= den THEN n + 1 ELSE n)
    ELSE Decimals(n * 10 + ((r * 10) \div den), (r * 10) % den, den, digits - 1)

\* parseFloat(x.toFixed(3)): x to the nearest thousandth, a half going up
toFixed3(x) == Reduced(Decimals(x.num \div x.den, x.num % x.den, x.den, 3), 1000)

\* find_topics: the ScoredMatch of a fused entry
ScoredMatch(entry, topic, query, messageKeywords) ==
    [id |-> entry.id,
     name |-> topic.name,
     confidence |-> toFixed3(calculateConfidence(
                        [rrfScore |-> entry.rrfScore, name |-> topic.name,
                         keywords |-> topic.keywords,
                         messageCount |-> topic.messageCount],
                        query, messageKeywords))]

\* A recommendation whose thresholds are exclusive.
generateRecommendationExclusive(scoredMatches) ==
    IF Len(scoredMatches) = 0 THEN
        [action |-> "create", confidence |-> Frac(0, 1), suggested_topic_id |-> 0]
    ELSE IF FracGT(scoredMatches[1].confidence, Frac(80, 100)) THEN
        [action |-> "assign", confidence |-> scoredMatches[1].confidence,
         suggested_topic_id |-> scoredMatches[1].id]
    ELSE IF FracGT(scoredMatches[1].confidence, Frac(50, 100)) THEN
        [action |-> "review", confidence |-> scoredMatches[1].confidence,
         suggested_topic_id |-> scoredMatches[1].id]
    ELSE
        [action |-> "create", confidence |-> scoredMatches[1].confidence,
         suggested_topic_id |-> 0]

\* generateRecommendation(matches)
generateRecommendation(scoredMatches) ==
    IF Len(scoredMatches) = 0 THEN
        [action |-> "create", confidence |-> Frac(0, 1), suggested_topic_id |-> 0]
    ELSE IF FracGE(scoredMatches[1].confidence, Frac(80, 100)) THEN
        [action |-> "assign", confidence |-> scoredMatches[1].confidence,
         suggested_topic_id |-> scoredMatches[1].id]
    ELSE IF FracGE(scoredMatches[1].confidence, Frac(50, 100)) THEN
        [action |-> "review", confidence |-> scoredMatches[1].confidence,
         suggested_topic_id |-> scoredMatches[1].id]
    ELSE
        [action |-> "create", confidence |-> scoredMatches[1].confidence,
         suggested_topic_id |-> 0]

\* fusedResults.slice(0, 10).map(...)
ScoredMatches(fusedResults, tps, query, messageKeywords) ==
    [i \in 1..(IF Len(fusedResults) < MaxMatches THEN Len(fusedResults) ELSE MaxMatches) |->
        ScoredMatch(fusedResults[i], tps[fusedResults[i].id], query, messageKeywords)]

\* find_topics: its result from the scored matches
FoundTopics(scoredMatches, messageKeywords) ==
    [tool |-> "find_topics",
     matches |-> scoredMatches,
     recommendation |-> generateRecommendation(scoredMatches),
     query_keywords |-> messageKeywords]

\* find_topics({ query }) once its three searches resolved to hybridResults,
\* vectorResults and bm25Results, over the topics tps of the Topic Store
FindTopics(query, hybridResults, vectorResults, bm25Results, tps) ==
    FoundTopics(ScoredMatches(reciprocalRankFusion(
                                  <<hybridResults, vectorResults, bm25Results>>, RRF_K),
                              tps, query, extractKeywords(query)),
                extractKeywords(query))

\* ------------------------------------------------------ Duplicate Validator

\* (nameSimilarity * 0.5) + (descSimilarity * 0.2) + (kwOverlap * 0.3)
CombinedScore(nameSimilarity, descSimilarity, kwOverlap) ==
    Frac(5 * nameSimilarity.num * descSimilarity.den * kwOverlap.den
           + 2 * descSimilarity.num * nameSimilarity.den * kwOverlap.den
           + 3 * kwOverlap.num * nameSimilarity.den * descSimilarity.den,
         10 * nameSimilarity.den * descSimilarity.den * kwOverlap.den)

\* analyzeTopicCreation: the suggestion for one existing topic, from its three
\* scores on (suggested: it is pushed to suggestions).
ScoredSuggestion(existingId, nameSimilarity, descSimilarity, kwOverlap, combinedScore, fuzzyThreshold, keywordThreshold) ==
    [topicId |-> existingId,
     combinedScore |-> combinedScore,
     suggested |-> \/ FracGE(nameSimilarity, fuzzyThreshold)
                   \/ FracGE(descSimilarity, fuzzyThreshold)
                   \/ FracGE(kwOverlap, keywordThreshold)
                   \/ FracGE(combinedScore, Frac(5, 10)),
     recommendation |-> IF FracGE(combinedScore, Frac(7, 10))
                        THEN "use_existing" ELSE "consider_merge"]

Scored(existingId, nameSimilarity, descSimilarity, kwOverlap, fuzzyThreshold, keywordThreshold) ==
    ScoredSuggestion(existingId, nameSimilarity, descSimilarity, kwOverlap,
                     CombinedScore(nameSimilarity, descSimilarity, kwOverlap),
                     fuzzyThreshold, keywordThreshold)

\* proposedTopic.keywords || extractKeywords(proposedTopic.description ||
\* proposedTopic.name)
ProposedKeywords(proposedTopic) ==
    IF proposedTopic.has_keywords THEN proposedTopic.keywords
    ELSE ValidatorKeywords(IF proposedTopic.description # ""
                           THEN proposedTopic.description ELSE proposedTopic.name)

\* analyzeTopicCreation: the body of the loop over existingTopics
Suggestion(proposedTopic, existing, existingId, fuzzyThreshold, keywordThreshold) ==
    Scored(existingId,
           fuzzySimilarity(proposedTopic.name, existing.name),
           IF proposedTopic.description # ""
           THEN fuzzySimilarity(proposedTopic.description, existing.description)
           ELSE Frac(0, 1),
           keywordOverlap(ProposedKeywords(proposedTopic), existing.keywords),
           fuzzyThreshold, keywordThreshold)

\* suggestions.sort((a, b) => b.combinedScore - a.combinedScore): x goes after
\* the elements that are not smaller.
RECURSIVE InsertByScore(_, _)
InsertByScore(sorted, x) ==
    IF Len(sorted) = 0 THEN <<x>>
    ELSE IF FracGE(Head(sorted).combinedScore, x.combinedScore)
         THEN <<Head(sorted)>> \o InsertByScore(Tail(sorted), x)
         ELSE <<x>> \o sorted

\* if (matchTypes.length > 0 || combinedScore >= 0.5) suggestions.push(...)
AddSuggestion(suggestions, s) ==
    IF s.suggested THEN InsertByScore(suggestions, s) ELSE suggestions

RECURSIVE Suggestions(_, _, _, _, _)
Suggestions(proposedTopic, existingTopics, i, fuzzyThreshold, keywordThreshold) ==
    IF i = 0 THEN <<>>
    ELSE AddSuggestion(Suggestions(proposedTopic, existingTopics, i - 1,
                                   fuzzyThreshold, keywordThreshold),
                       Suggestion(proposedTopic, existingTopics[i], i,
                                  fuzzyThreshold, keywordThreshold))

\* An analysis that also lets a topic be created at a combined score of 0.5.
AnalysisAtMostHalf(suggestions) ==
    [shouldCreate |-> \/ Len(suggestions) = 0
                      \/ ~FracGT(suggestions[1].combinedScore, Frac(5, 10)),
     suggestions |-> suggestions]

\* analyzeTopicCreation(proposedTopic, existingTopics, options), where
\* existingTopics is the Topic Store's list and a topic's id is its index.
Analysis(suggestions) ==
    [shouldCreate |-> \/ Len(suggestions) = 0
                      \/ FracLT(suggestions[1].combinedScore, Frac(5, 10)),
     suggestions |-> suggestions]

analyzeTopicCreation(proposedTopic, existingTopics, fuzzyThreshold, keywordThreshold) ==
    Analysis(Suggestions(proposedTopic, existingTopics, Len(existingTopics),
                         fuzzyThreshold, keywordThreshold))

\* validateNewTopic(proposedTopic) with the default thresholds (0.6 and 0.4)
validateNewTopic(proposedTopic, existingTopics) ==
    IF Len(existingTopics) = 0
    THEN [shouldCreate |-> TRUE, suggestions |-> <<>>]
    ELSE analyzeTopicCreation(proposedTopic, existingTopics, Frac(6, 10), Frac(4, 10))

\* ------------------------------------------------------------------ inputs

\* A Slack message as handed to categorizeMessage.  has_text = FALSE is a
\* message whose text property is missing; user_name = "" is a message that
\* was not enriched with a display name.
MsgOk      == [ts |-> "100.1", has_text |-> TRUE,  text |-> "ok",
               user |-> "U1", user_name |-> "ann"]
MsgEdge14  == [ts |-> "100.2", has_text |-> TRUE,  text |-> Rep("ab", 7),
               user |-> "U2", user_name |-> ""]
MsgLong15  == [ts |-> "100.3", has_text |-> TRUE,  text |-> Rep("abc", 5),
               user |-> "U2", user_name |-> ""]
MsgBlank   == [ts |-> "100.5", has_text |-> TRUE,  text |-> "  \t",
               user |-> "U1", user_name |-> "ann"]
MsgEmpty   == [ts |-> "100.6", has_text |-> TRUE,  text |-> "",
               user |-> "U1", user_name |-> "ann"]
MsgMissing == [ts |-> "100.7", has_text |-> FALSE, text |-> "",
               user |-> "U1", user_name |-> "ann"]

ChanA == [id |-> "CA", name |-> "general"]
ChanB == [id |-> "CB", name |-> "random"]

Channels == {ChanA, ChanB}
ChannelIds == {c.id : c \in Channels}

\* The (message, channelInfo) pairs categorizeMessage is called with.
Inputs ==
    { [message |-> MsgOk,      channelInfo |-> ChanA],
      [message |-> MsgEdge14,  channelInfo |-> ChanA],
      [message |-> MsgLong15,  channelInfo |-> ChanB],
      [message |-> MsgBlank,   channelInfo |-> ChanB],
      [message |-> MsgEmpty,   channelInfo |-> ChanA],
      [message |-> MsgMissing, channelInfo |-> ChanA] }

NoMessage == [ts |-> "", has_text |-> FALSE, text |-> "", user |-> "", user_name |-> ""]
NoChannel == [id |-> "", name |-> ""]

\* --------------------------------------------------------------- variables

VARIABLES
    topics,               \* Topic Store, class Topic: id (index) -> properties
    slackMessages,        \* Topic Store, class SlackMessage: id (index) -> properties
    conversationContext,  \* conversationContext: channel id -> context
    currentMessage,       \* tool handlers: let currentMessage
    currentChannelInfo,   \* tool handlers: let currentChannelInfo
    pc,                   \* per call in flight: the await it is suspended at
    call,                 \* per call in flight: its index in results
    message,              \* categorizeMessage parameter
    channelInfo,          \* categorizeMessage parameter
    iterations,           \* categorizeMessage: let iterations
    decision,             \* categorizeMessage: let decision
    turnLeft,             \* tool calls of the current Planner turn not yet run
    observation,          \* the last tool result pushed for the Planner
    local,                \* locals of the APPLY part (topicId, topicName, ...)
    plannerCalls,         \* number of openai.chat.completions.create calls made
    allFailed,            \* every iteration so far ended in the catch block
    results,              \* per call: its message and how categorizeMessage ended
    returned,             \* what the call that ended last returned or threw
    stats,                \* processMessages: results.processed / failed / skipped
    search,               \* find_topics: the query and the three searches of a call
    matches,              \* generateRecommendation: its argument
    recommendation,       \* generateRecommendation: its result
    proposedTopic,        \* validateNewTopic: its argument
    analysis              \* validateNewTopic: its result

procVars == <<pc, iterations, decision, turnLeft, observation, local,
              plannerCalls, allFailed>>
callVars == <<call, message, channelInfo>>
store == <<topics, slackMessages>>
globals == <<currentMessage, currentChannelInfo>>
\* The state of the retrieval engine and of the Duplicate Validator.
engineVars == <<search, matches, recommendation, proposedTopic, analysis>>

vars == <<topics, slackMessages, conversationContext, currentMessage,
          currentChannelInfo, pc, call, message, channelInfo, iterations,
          decision, turnLeft, observation, local, plannerCalls, allFailed,
          results, returned, stats, search, matches, recommendation,
          proposedTopic, analysis>>

\* ------------------------------------------------------------- local state

NoDecision == [action |-> "none"]
\* A search of find_topics: not started, pending, lost (no answer will come)
\* or done, with the list it resolved to.
NotAsked == [status |-> "idle", failed |-> FALSE, results |-> <<>>]
NoObservation == [tool |-> "none"]
\* Topic ids are 1, 2, ...; 0 stands for "no id" (undefined / null).
NoTopic == [name |-> "", description |-> "", keywords |-> <<>>, users |-> <<>>,
            sampleMessages |-> <<>>, messageCount |-> 0, createdBy |-> 0]
\* fallback: "Fallback mode activated" was logged for the call.
NoLocal == [topicId |-> 0, topicName |-> "", messageId |-> 0, currentTopic |-> NoTopic,
            fallback |-> FALSE]
\* A channel without an entry in conversationContext.
NoContext == [exists |-> FALSE, recentMessages |-> <<>>, currentTopicId |-> 0,
              currentTopicName |-> ""]
NoReturn == [kind |-> "none"]
\* processMessages: const results = { processed: 0, failed: 0, skipped: 0, ... }
NoStats == [processed |-> 0, failed |-> 0, skipped |-> 0]
\* No find_topics call is in flight.
NoSearch == [query |-> "", hybrid |-> NotAsked, vector |-> NotAsked, bm25 |-> NotAsked,
             fused |-> <<>>, result |-> NoObservation]
NoRecommendation == [action |-> "none"]
NoProposal ==
    [name |-> "", description |-> "", has_keywords |-> TRUE, keywords |-> <<>>]
NoAnalysis == [shouldCreate |-> FALSE, suggestions |-> <<>>, validated |-> FALSE]

Init ==
    /\ topics = <<>>
    /\ slackMessages = <<>>
    /\ conversationContext = [c \in ChannelIds |-> NoContext]
    /\ currentMessage = NoMessage
    /\ currentChannelInfo = NoChannel
    /\ pc = [p \in Procs |-> "idle"]
    /\ call = [p \in Procs |-> 0]
    /\ message = [p \in Procs |-> NoMessage]
    /\ channelInfo = [p \in Procs |-> NoChannel]
    /\ iterations = [p \in Procs |-> 0]
    /\ decision = [p \in Procs |-> NoDecision]
    /\ turnLeft = [p \in Procs |-> 0]
    /\ observation = [p \in Procs |-> NoObservation]
    /\ local = [p \in Procs |-> NoLocal]
    /\ plannerCalls = [p \in Procs |-> 0]
    /\ allFailed = [p \in Procs |-> TRUE]
    /\ results = <<>>
    /\ returned = NoReturn
    /\ stats = NoStats
    /\ search = [p \in Procs |-> NoSearch]
    /\ matches = <<>>
    /\ recommendation = NoRecommendation
    /\ proposedTopic = NoProposal
    /\ analysis = NoAnalysis

\* The locals of call p after a step.
SetProc(p, newPc, its, dec, left, obs, loc, calls, failed) ==
    /\ pc' = [pc EXCEPT ![p] = newPc]
    /\ iterations' = [iterations EXCEPT ![p] = its]
    /\ decision' = [decision EXCEPT ![p] = dec]
    /\ turnLeft' = [turnLeft EXCEPT ![p] = left]
    /\ observation' = [observation EXCEPT ![p] = obs]
    /\ local' = [local EXCEPT ![p] = loc]
    /\ plannerCalls' = [plannerCalls EXCEPT ![p] = calls]
    /\ allFailed' = [allFailed EXCEPT ![p] = failed]

\* ------------------------------------------------------- Planner's choices

\* reasoning left out of a categorize call (undefined in the code)
NoReasoning == "<undefined>"

NoNewTopic == [present |-> FALSE, name |-> "", description |-> "",
               has_keywords |-> FALSE, keywords |-> <<>>]

GeneralTopicArgs ==
    [present |-> TRUE, name |-> "General Discussion",
     description |-> "General messages and conversations",
     has_keywords |-> TRUE, keywords |-> <<"general", "chat", "discussion">>]

\* new_topic arguments the Planner may send with action = "create"
NewTopicArgs ==
    { NoNewTopic,
      [present |-> TRUE, name |-> "", description |-> "",
       has_keywords |-> FALSE, keywords |-> <<>>],
      [present |-> TRUE, name |-> "Database Migration", description |-> "",
       has_keywords |-> FALSE, keywords |-> <<>>],
      GeneralTopicArgs }

\* What the Planner may send with action = "assign":
\* <<topic_name, improved_name, improved_description, reasoning>>
PlainAssign == <<"", "", "", "short reply">>
AssignVariants ==
    { PlainAssign,
      <<"Deploys", "Releases", "Release and deploy talk", NoReasoning>> }

AssignArgs(t, v) ==
    [action |-> "assign", topic_id |-> t, topic_name |-> v[1],
     improved_name |-> v[2], improved_description |-> v[3],
     new_topic |-> NoNewTopic, reasoning |-> v[4]]

CreateArgs(n, r) ==
    [action |-> "create", topic_id |-> 0, topic_name |-> "",
     improved_name |-> "", improved_description |-> "",
     new_topic |-> n, reasoning |-> r]

NoArgs == [action |-> ""]

\* The tool calls of a Planner that may do anything, given the topic ids it
\* may name (0: no topic_id; an id past the last topic: one that does not
\* exist).  "unparsable" is a call whose arguments are not JSON.
AnyToolCalls(ids) ==
    { [tool |-> t, args |-> NoArgs] :
          t \in {"get_context", "find_topics", "unknown_tool", "unparsable"} }
    \cup
    { [tool |-> "categorize", args |-> a] :
          a \in { AssignArgs(t, v) : t \in ids, v \in AssignVariants }
                \cup { CreateArgs(n, "new subject") : n \in NewTopicArgs }
                \cup { [action |-> "merge", topic_id |-> 0, topic_name |-> "",
                        improved_name |-> "", improved_description |-> "",
                        new_topic |-> NoNewTopic, reasoning |-> "?"] } }

\* The tool calls of a Planner that follows the prompt's workflow: get_context
\* first, then a decision for an existing topic or a new one.
WorkflowToolCalls(its, ids) ==
    (IF its = 1 THEN {[tool |-> "get_context", args |-> NoArgs]} ELSE {})
    \cup
    { [tool |-> "categorize", args |-> a] :
          a \in { AssignArgs(t, PlainAssign) : t \in ids \ {0} }
                \cup { CreateArgs(GeneralTopicArgs, "new subject") } }

\* ------------------------------------------------------------ tool handlers

\* categorize without the check of topic_id: an assign without a topic is taken
\* for a Decision.
categorizeAcceptsNoId(args) ==
    IF args.action = "assign" THEN
        [action |-> "assign",
         topic_id |-> args.topic_id,
         topic_name |-> IF args.topic_name # "" THEN args.topic_name ELSE "Unknown",
         improved_name |-> args.improved_name,
         improved_description |-> args.improved_description,
         name |-> "", description |-> "", keywords |-> <<>>,
         reasoning |-> args.reasoning]
    ELSE IF args.action = "create" THEN
        IF ~args.new_topic.present \/ args.new_topic.name = "" THEN
            [action |-> "error",
             error |-> "new_topic with name is required when action is \"create\""]
        ELSE
            [action |-> "create",
             topic_id |-> 0, topic_name |-> "",
             improved_name |-> "", improved_description |-> "",
             name |-> args.new_topic.name,
             description |-> IF args.new_topic.description # ""
                             THEN args.new_topic.description
                             ELSE "Messages about " \o args.new_topic.name,
             keywords |-> IF args.new_topic.has_keywords
                          THEN args.new_topic.keywords ELSE <<>>,
             reasoning |-> args.reasoning]
    ELSE
        [action |-> "error", error |-> "Invalid action"]

\* toolHandlers.categorize: the Decision, or an error observation
categorize(args) ==
    IF args.action = "assign" THEN
        IF args.topic_id = 0 THEN
            [action |-> "error",
             error |-> "topic_id is required when action is \"assign\""]
        ELSE
            [action |-> "assign",
             topic_id |-> args.topic_id,
             topic_name |-> IF args.topic_name # "" THEN args.topic_name ELSE "Unknown",
             improved_name |-> args.improved_name,
             improved_description |-> args.improved_description,
             name |-> "", description |-> "", keywords |-> <<>>,
             reasoning |-> args.reasoning]
    ELSE IF args.action = "create" THEN
        IF ~args.new_topic.present \/ args.new_topic.name = "" THEN
            [action |-> "error",
             error |-> "new_topic with name is required when action is \"create\""]
        ELSE
            [action |-> "create",
             topic_id |-> 0, topic_name |-> "",
             improved_name |-> "", improved_description |-> "",
             name |-> args.new_topic.name,
             description |-> IF args.new_topic.description # ""
                             THEN args.new_topic.description
                             ELSE "Messages about " \o args.new_topic.name,
             keywords |-> IF args.new_topic.has_keywords
                          THEN args.new_topic.keywords ELSE <<>>,
             reasoning |-> args.reasoning]
    ELSE
        [action |-> "error", error |-> "Invalid action"]

\* categorizeMessage: if (result.action === 'assign' || result.action === 'create')
IsDecision(result) == result.action \in {"assign", "create"}

RECURSIVE ToolCallOutcomes(_, _, _, _)
\* The for loop over the tool calls of a turn, from the call after the last
\* await to the next await: n calls are left, each any of toolCalls.  The
\* outcomes are "end" (the loop body ends), "throw" (JSON.parse or
\* executeToolCall throws: the catch block) and "await" (a handler that waits
\* for Slack, the search service or the Topic Store was entered), each with
\* the decision and the observation as they are then.
ToolCallOutcomes(n, dec, obs, toolCalls) ==
    IF n = 0 THEN {[kind |-> "end", tool |-> "", dec |-> dec, obs |-> obs, left |-> 0]}
    ELSE UNION {
        IF c.tool \in {"unknown_tool", "unparsable"} THEN
            {[kind |-> "throw", tool |-> c.tool, dec |-> dec, obs |-> obs, left |-> 0]}
        ELSE IF c.tool \in {"get_context", "find_topics"} THEN
            {[kind |-> "await", tool |-> c.tool, dec |-> dec, obs |-> obs,
              left |-> n - 1]}
        ELSE
            LET result == categorize(c.args) IN
                IF IsDecision(result)
                THEN ToolCallOutcomes(n - 1, result, obs, toolCalls)
                ELSE ToolCallOutcomes(n - 1, dec,
                         [tool |-> "categorize", error |-> result.error], toolCalls)
        : c \in toolCalls }

\* toolHandlers.get_context after its awaits: the result is built from the
\* module's current context as it is then.  channelId and the channel's
\* context object are those read before the awaits.
get_context(channelId, hasChannelContext) ==
    [tool |-> "get_context",
     current_message |-> [text |-> currentMessage.text,
                          user |-> currentMessage.user,
                          is_short |-> Len(currentMessage.text) < ShortMessageLength],
     channel |-> [name |-> currentChannelInfo.name,
                  id |-> currentChannelInfo.id,
                  current_topic |->
                      IF hasChannelContext
                      THEN conversationContext[channelId].currentTopicId
                      ELSE 0]]

\* toolHandlers.find_topics: three searches, fusion and scoring; it reads the
\* Topic Store and writes nothing.
find_topics == [tool |-> "find_topics"]

\* ---------------------------------------------------------------- FALLBACK

\* The fallback with the threshold included: length <= 15.
FallbackInclusive(msg, channelContext) ==
    IF Len(msg.text) <= ShortMessageLength /\ channelContext.currentTopicId # 0 THEN
        [action |-> "assign",
         topic_id |-> channelContext.currentTopicId,
         topic_name |-> channelContext.currentTopicName,
         improved_name |-> "", improved_description |-> "",
         name |-> "", description |-> "", keywords |-> <<>>,
         reasoning |-> "Fallback: Short message assigned to recent topic"]
    ELSE
        [action |-> "create",
         topic_id |-> 0, topic_name |-> "",
         improved_name |-> "", improved_description |-> "",
         name |-> "General Discussion",
         description |-> "General messages and conversations",
         keywords |-> <<"general", "chat", "discussion">>,
         reasoning |-> "Fallback: Could not determine specific topic"]

\* categorizeMessage, "Fallback if no decision made"
Fallback(msg, channelContext) ==
    IF Len(msg.text) < ShortMessageLength /\ channelContext.currentTopicId # 0 THEN
        [action |-> "assign",
         topic_id |-> channelContext.currentTopicId,
         topic_name |-> channelContext.currentTopicName,
         improved_name |-> "", improved_description |-> "",
         name |-> "", description |-> "", keywords |-> <<>>,
         reasoning |-> "Fallback: Short message assigned to recent topic"]
    ELSE
        [action |-> "create",
         topic_id |-> 0, topic_name |-> "",
         improved_name |-> "", improved_description |-> "",
         name |-> "General Discussion",
         description |-> "General messages and conversations",
         keywords |-> <<"general", "chat", "discussion">>,
         reasoning |-> "Fallback: Could not determine specific topic"]

\* ----------------------------------------------------------- Decision Loop

\* The check without trim(): a text of blanks is taken for a message.
IsEmptyMessageNoTrim(msg) == ~msg.has_text \/ msg.text = ""

\* categorizeMessage: if (!message.text || message.text.trim().length === 0)
IsEmptyMessage(msg) == ~msg.has_text \/ msg.text = "" \/ Len(Trim(msg.text)) = 0

\* The loop condition off by one: iterations <= maxIterations.
LoopContinuesOffByOne(dec, its, maxIterations) ==
    dec.action = "none" /\ its <= maxIterations

\* categorizeMessage: while (!decision && iterations < maxIterations)
LoopContinues(dec, its, maxIterations) == dec.action = "none" /\ its < maxIterations

\* catch block: if (iterations >= maxIterations) throw error
Rethrows(its, maxIterations) == its >= maxIterations

\* A processMessages that counts no failure (no catch around the call).
CountedLosingFailures(counters, kind) ==
    IF kind = "result" THEN [counters EXCEPT !.processed = @ + 1]
    ELSE IF kind = "null" THEN [counters EXCEPT !.skipped = @ + 1]
    ELSE counters

\* processMessages: the counters after a call of categorizeMessage that
\* returned a result ("result"), returned null ("null") or threw.
Counted(counters, kind) ==
    IF kind = "result" THEN [counters EXCEPT !.processed = @ + 1]
    ELSE IF kind = "null" THEN [counters EXCEPT !.skipped = @ + 1]
    ELSE [counters EXCEPT !.failed = @ + 1]

\* categorizeMessage returns or throws: the outcome goes to the caller (the
\* loop of processMessages) and the locals of the call are gone.
Finish(p, kind, value) ==
    /\ results' = [results EXCEPT ![call[p]] =
           [@ EXCEPT !.kind = kind, !.topicId = local[p].topicId,
                     !.messageId = local[p].messageId]]
    /\ returned' = value
    /\ stats' = Counted(stats, kind)
    /\ SetProc(p, "idle", 0, NoDecision, 0, NoObservation, NoLocal, 0, TRUE)
    /\ call' = [call EXCEPT ![p] = 0]
    /\ message' = [message EXCEPT ![p] = NoMessage]
    /\ channelInfo' = [channelInfo EXCEPT ![p] = NoChannel]

\* "Execute decision", up to its first Topic Store call.  The Planner's
\* conversation is not used any more.
BeginApply(p, dec, its, failed, viaFallback) ==
    IF dec.action = "assign" THEN
        SetProc(p,
                IF dec.improved_name # "" \/ dec.improved_description # ""
                THEN "updateTopic" ELSE "createMessage",
                its, dec, 0, NoObservation,
                [NoLocal EXCEPT !.topicId = dec.topic_id,
                                !.topicName = IF dec.improved_name # ""
                                              THEN dec.improved_name
                                              ELSE dec.topic_name,
                                !.fallback = viaFallback],
                plannerCalls[p], failed)
    ELSE
        SetProc(p, "createTopic", its, dec, 0, NoObservation,
                [NoLocal EXCEPT !.fallback = viaFallback],
                plannerCalls[p], failed)

\* The head of the while loop, reached from the call's entry and from the end
\* of every iteration: another Planner call, or the loop's exit into FALLBACK
\* and APPLY.
LoopHead(p, msg, chan, dec, its, obs, calls, failed) ==
    IF LoopContinues(dec, its, DefaultMaxIterations) THEN
        SetProc(p, "planner", its + 1, dec, 0, obs, NoLocal, calls + 1, failed)
    ELSE
        BeginApply(p,
                   IF dec.action = "none"
                   THEN Fallback(msg, conversationContext[chan.id])
                   ELSE dec,
                   its, failed, dec.action = "none")

\* categorizeMessage(message, channelInfo) is called, while fewer than maxCalls
\* calls were made.  The call takes the first free slot.
Start(p, inp, maxCalls) ==
    /\ pc[p] = "idle"
    /\ \A q \in Procs : q < p => pc[q] # "idle"
    /\ Len(results) < maxCalls
    /\ IF IsEmptyMessage(inp.message) THEN
          /\ results' = Append(results, [kind |-> "null", topicId |-> 0,
                                         messageId |-> 0, message |-> inp.message])
          /\ returned' = [kind |-> "null"]
          /\ stats' = Counted(stats, "null")
          /\ UNCHANGED <<store, conversationContext, globals, engineVars, procVars, callVars>>
       ELSE
          /\ results' = Append(results, [kind |-> "pending", topicId |-> 0,
                                         messageId |-> 0, message |-> inp.message])
          /\ returned' = NoReturn
          /\ call' = [call EXCEPT ![p] = Len(results) + 1]
          /\ currentMessage' = inp.message
          /\ currentChannelInfo' = inp.channelInfo
          /\ message' = [message EXCEPT ![p] = inp.message]
          /\ channelInfo' = [channelInfo EXCEPT ![p] = inp.channelInfo]
          /\ LoopHead(p, inp.message, inp.channelInfo, NoDecision, 0,
                      NoObservation, 0, TRUE)
          /\ UNCHANGED <<store, conversationContext, stats, engineVars>>

\* The catch block of the loop body: the error is thrown again on the last
\* iteration, otherwise the loop goes on.
Catch(p, dec, obs) ==
    IF Rethrows(iterations[p], DefaultMaxIterations) THEN
        Finish(p, "planner_error",
               [kind |-> "planner_error", iterations |-> iterations[p],
                allFailed |-> allFailed[p]])
    ELSE
        /\ LoopHead(p, message[p], channelInfo[p], dec, iterations[p], obs,
                    plannerCalls[p], allFailed[p])
        /\ UNCHANGED <<results, returned, stats, callVars>>

\* The end of the loop body when nothing was thrown.
EndIteration(p, dec, obs) ==
    /\ LoopHead(p, message[p], channelInfo[p], dec, iterations[p], obs,
                plannerCalls[p], FALSE)
    /\ UNCHANGED <<results, returned, stats, callVars>>

\* The loop body from a point where tool calls are run to its next await.
RunToolCalls(p, outcome) ==
    IF outcome.kind = "throw" THEN
        Catch(p, outcome.dec, outcome.obs)
    ELSE IF outcome.kind = "end" THEN
        EndIteration(p, outcome.dec, outcome.obs)
    ELSE
        /\ SetProc(p, outcome.tool, iterations[p], outcome.dec, outcome.left,
                   IF outcome.tool = "get_context"
                   THEN [tool |-> "get_context (awaiting)",
                         channelId |-> currentChannelInfo.id,
                         hasChannelContext |->
                             conversationContext[currentChannelInfo.id].exists]
                   ELSE outcome.obs,
                   NoLocal, plannerCalls[p], allFailed[p])
        /\ UNCHANGED <<results, returned, stats, callVars>>

\* openai.chat.completions.create rejects (Planner unresponsive).
PlannerFails(p) ==
    /\ pc[p] = "planner"
    /\ Catch(p, decision[p], NoObservation)
    /\ UNCHANGED <<store, conversationContext, globals, engineVars>>

\* The Planner answers without tool calls (finish_reason "stop": the code asks
\* it again for a decision; any other finish_reason: nothing is added).
PlannerAnswersPlain(p) ==
    /\ pc[p] = "planner"
    /\ \E finish_reason \in {"stop", "length"} :
          EndIteration(p, decision[p], NoObservation)
    /\ UNCHANGED <<store, conversationContext, globals, engineVars>>

\* The Planner answers with n tool calls, each one of toolCalls.
PlannerCallsTools(p, n, toolCalls) ==
    /\ pc[p] = "planner"
    /\ \E outcome \in ToolCallOutcomes(n, decision[p], NoObservation, toolCalls) :
          RunToolCalls(p, outcome)
    /\ UNCHANGED <<store, conversationContext, globals, engineVars>>

\* get_context returns; the rest of the turn's tool calls run.
GetContextReturns(p, toolCalls) ==
    /\ pc[p] = "get_context"
    /\ \E outcome \in ToolCallOutcomes(turnLeft[p], decision[p],
                          get_context(observation[p].channelId,
                                      observation[p].hasChannelContext),
                          toolCalls) :
          RunToolCalls(p, outcome)
    /\ UNCHANGED <<store, conversationContext, globals, engineVars>>

\* A find_topics that notes the channel it searched for in conversationContext
\* (updateChannelContext) before it returns.
FindTopicsReturnsNotingChannel(p, toolCalls) ==
    /\ pc[p] = "find_topics"
    /\ \E outcome \in ToolCallOutcomes(turnLeft[p], decision[p], find_topics,
                                       toolCalls) :
          RunToolCalls(p, outcome)
    /\ conversationContext' = [conversationContext EXCEPT ![channelInfo[p].id] =
           [@ EXCEPT !.exists = TRUE]]
    /\ UNCHANGED <<store, globals, engineVars>>

\* find_topics returns; the rest of the turn's tool calls run.
FindTopicsReturns(p, toolCalls) ==
    /\ pc[p] = "find_topics"
    /\ \E outcome \in ToolCallOutcomes(turnLeft[p], decision[p], find_topics,
                                       toolCalls) :
          RunToolCalls(p, outcome)
    /\ UNCHANGED <<store, conversationContext, globals, engineVars>>

\* ------------------------------------------------- find_topics, in detail

\* The three searches of find_topics, in the order of its Promise.all.
Strategies == {"hybrid", "vector", "bm25"}

\* The lists a search may resolve to: topics of the Topic Store, each at most
\* once, best first, at most SearchLimit of them.
RankedLists(ids) ==
    UNION { {l \in [1..n -> ids] : \A i, j \in 1..n : i # j => l[i] # l[j]} :
                n \in 0..(IF Cardinality(ids) < SearchLimit
                          THEN Cardinality(ids) ELSE SearchLimit) }

\* A search that was started and has not answered yet.
SearchPending == [status |-> "pending", failed |-> FALSE, results |-> <<>>]
\* A search whose request the Topic Store never answers.
SearchLost == [status |-> "lost", failed |-> FALSE, results |-> <<>>]

\* The search of a strategy resolves to the topics ids.
SearchResolved(strategy, ids) ==
    [status |-> "done", failed |-> FALSE,
     results |-> IF strategy = "hybrid" THEN hybridSearchTopics(ids)
                 ELSE IF strategy = "vector" THEN semanticSearchTopics(ids)
                 ELSE keywordSearchTopics(ids)]

\* A search whose error is not caught: its promise rejects.
SearchRejected(strategy) == [status |-> "rejected", failed |-> TRUE, results |-> <<>>]

\* The catch block of a search: console.error(...); return []
SearchCaught(strategy) == [status |-> "done", failed |-> TRUE, results |-> <<>>]

\* find_topics is entered with the Planner's query: its three searches are
\* started (a find_topics that ended earlier leaves nothing behind).
StartSearches(p, query) ==
    /\ pc[p] = "find_topics"
    /\ search[p] = NoSearch \/ search[p].result # NoObservation
    /\ search' = [search EXCEPT ![p] =
           [NoSearch EXCEPT !.query = query, !.hybrid = SearchPending,
                            !.vector = SearchPending, !.bm25 = SearchPending]]
    /\ UNCHANGED <<store, conversationContext, globals, procVars, callVars,
                   results, returned, stats, matches, recommendation,
                   proposedTopic, analysis>>

\* The state of the search of a strategy becomes answer.
SearchSettles(p, strategy, answer) ==
    /\ pc[p] = "find_topics"
    /\ search[p][strategy].status = "pending"
    /\ search' = [search EXCEPT ![p][strategy] = answer]
    /\ UNCHANGED <<store, conversationContext, globals, procVars, callVars,
                   results, returned, stats, matches, recommendation,
                   proposedTopic, analysis>>

\* The Topic Store answers a search with the topics ids.
SearchAnswers(p, strategy, ids) ==
    SearchSettles(p, strategy, SearchResolved(strategy, ids))

\* The Topic Store answers a search with an error.
SearchFails(p, strategy) == SearchSettles(p, strategy, SearchCaught(strategy))

\* The request of a search is lost: no answer will come.
SearchHangs(p, strategy) == SearchSettles(p, strategy, SearchLost)

\* const fusedResults = reciprocalRankFusion([hybridResults, vectorResults,
\* bm25Results])
FusedResults(s) ==
    reciprocalRankFusion(<<s.hybrid.results, s.vector.results, s.bm25.results>>,
                         RRF_K)

\* What is thrown into the loop's catch block when Promise.all rejects.
SearchError == [tool |-> "find_topics", error |-> "search rejected"]

\* find_topics returns result, computed from the lists fused; the rest of the
\* turn's tool calls run.
FindTopicsResolves(p, fused, result, toolCalls) ==
    /\ search' = [search EXCEPT ![p].fused = fused, ![p].result = result]
    /\ \E outcome \in ToolCallOutcomes(turnLeft[p], decision[p], result, toolCalls) :
          RunToolCalls(p, outcome)

\* The Promise.all of find_topics settles: it rejects when a search rejected,
\* and resolves when the three searches resolved.
FindTopicsSettles(p, toolCalls) ==
    /\ pc[p] = "find_topics"
    /\ search[p].result = NoObservation
    /\ \A s \in Strategies : search[p][s].status \in {"done", "rejected"}
    /\ IF \E s \in Strategies : search[p][s].status = "rejected" THEN
          /\ search' = [search EXCEPT ![p].result = SearchError]
          /\ Catch(p, decision[p], NoObservation)
       ELSE
          FindTopicsResolves(p, FusedResults(search[p]),
                             FindTopics(search[p].query, search[p].hybrid.results,
                                        search[p].vector.results,
                                        search[p].bm25.results, topics),
                             toolCalls)
    /\ UNCHANGED <<store, conversationContext, globals, matches, recommendation,
                   proposedTopic, analysis>>

\* -------------------------------------------------------------------- APPLY

\* const userName = message.user_name || message.user_real_name || message.user
UserName(msg) == IF msg.user_name # "" THEN msg.user_name ELSE msg.user

TopicExists(id) == id \in 1..Len(topics)

StoreCalls == {"updateTopic", "createTopic", "createMessage", "linkMessage",
               "readTopic", "writeTopic"}

\* What categorizeMessage throws when a Topic Store call rejects.
StoreError(p) ==
    [kind |-> "store_error", failedAt |-> pc[p], decision |-> decision[p].action]

\* A Topic Store call of the APPLY part rejects: categorizeMessage throws.
StoreCallFails(p) ==
    /\ pc[p] \in StoreCalls
    /\ Finish(p, "store_error", StoreError(p))
    /\ UNCHANGED <<store, conversationContext, globals, engineVars>>

\* updateTopic(topicId, updates): the Topic Store's update(id, fields) with the
\* Planner's refinements.
updateTopic(tps, topicId, dec) ==
    [tps EXCEPT ![topicId] =
        [@ EXCEPT !.name = IF dec.improved_name # "" THEN dec.improved_name ELSE @,
                  !.description = IF dec.improved_description # ""
                                  THEN dec.improved_description ELSE @]]

\* The assign branch of "Execute decision" with refinements.
UpdateTopic(p) ==
    /\ pc[p] = "updateTopic"
    /\ IF TopicExists(local[p].topicId) THEN
          /\ topics' = updateTopic(topics, local[p].topicId, decision[p])
          /\ pc' = [pc EXCEPT ![p] = "createMessage"]
          /\ UNCHANGED <<slackMessages, conversationContext, globals, engineVars, callVars,
                         iterations, decision, turnLeft, observation, local,
                         plannerCalls, allFailed, results, returned, stats>>
       ELSE
          \* an id the Topic Store does not hold
          /\ Finish(p, "store_error", StoreError(p))
          /\ UNCHANGED <<store, conversationContext, globals, engineVars>>

\* createTopicInDB(name, description, keywords, {users, sampleMessages}): the
\* properties of the created Topic (createdBy: the call that created it).
createTopicInDB(name, description, keywords, users, sampleMessages, by) ==
    [name |-> name, description |-> description, keywords |-> keywords,
     users |-> users, sampleMessages |-> sampleMessages, messageCount |-> 0,
     createdBy |-> by]

\* The create branch of "Execute decision".
CreateTopic(p) ==
    /\ pc[p] = "createTopic"
    /\ LET userName == UserName(message[p]) IN
          topics' = Append(topics,
              createTopicInDB(decision[p].name, decision[p].description,
                              decision[p].keywords,
                              IF userName # "" THEN <<userName>> ELSE <<>>,
                              <<truncate(message[p].text, SampleTruncateLength)>>,
                              call[p]))
    /\ local' = [local EXCEPT ![p] =
           [@ EXCEPT !.topicId = Len(topics) + 1, !.topicName = decision[p].name]]
    /\ pc' = [pc EXCEPT ![p] = "createMessage"]
    /\ UNCHANGED <<slackMessages, conversationContext, globals, engineVars, callVars,
                   iterations, decision, turnLeft, observation, plannerCalls,
                   allFailed, results, returned, stats>>

\* storeMessageWithTopic, "Create message"
CreateMessage(p) ==
    /\ pc[p] = "createMessage"
    /\ slackMessages' = Append(slackMessages,
           [text |-> message[p].text, user |-> message[p].user,
            userName |-> UserName(message[p]), timestamp |-> message[p].ts,
            channelId |-> channelInfo[p].id, channelName |-> channelInfo[p].name,
            topic |-> 0, createdBy |-> call[p]])
    /\ local' = [local EXCEPT ![p] = [@ EXCEPT !.messageId = Len(slackMessages) + 1]]
    /\ pc' = [pc EXCEPT ![p] = "linkMessage"]
    /\ UNCHANGED <<topics, conversationContext, globals, engineVars, callVars, iterations,
                   decision, turnLeft, observation, plannerCalls, allFailed,
                   results, returned, stats>>

\* storeMessageWithTopic, "Link to topic"
LinkMessage(p) ==
    /\ pc[p] = "linkMessage"
    /\ slackMessages' = [slackMessages EXCEPT ![local[p].messageId] =
           [@ EXCEPT !.topic = local[p].topicId]]
    /\ pc' = [pc EXCEPT ![p] = "readTopic"]
    /\ UNCHANGED <<topics, conversationContext, globals, engineVars, callVars, iterations,
                   decision, turnLeft, observation, local, plannerCalls,
                   allFailed, results, returned, stats>>

\* storeMessageWithTopic, const currentTopic = await ...getterById()
ReadTopic(p) ==
    /\ pc[p] = "readTopic"
    /\ IF TopicExists(local[p].topicId) THEN
          /\ local' = [local EXCEPT ![p] =
                 [@ EXCEPT !.currentTopic = topics[local[p].topicId]]]
          /\ pc' = [pc EXCEPT ![p] = "writeTopic"]
          /\ UNCHANGED <<store, conversationContext, globals, engineVars, callVars,
                         iterations, decision, turnLeft, observation,
                         plannerCalls, allFailed, results, returned, stats>>
       ELSE
          \* an id the Topic Store does not hold: currentTopic.properties throws
          /\ Finish(p, "store_error", StoreError(p))
          /\ UNCHANGED <<store, conversationContext, globals, engineVars>>

\* Array.prototype.slice(-n)
LastN(seq, n) == IF Len(seq) > n THEN SubSeq(seq, Len(seq) - n + 1, Len(seq)) ELSE seq

\* Array.prototype.includes
Includes(seq, x) == \E i \in 1..Len(seq) : seq[i] = x

\* An update that puts the new sample first and counts nothing.
UpdatedTopicNewestFirst(currentTopic, msg) ==
    [currentTopic EXCEPT
        !.users = IF Includes(@, UserName(msg)) THEN @
                  ELSE Append(@, UserName(msg)),
        !.sampleMessages = LastN(<<truncate(msg.text, SampleTruncateLength)>> \o @,
                                 MaxSampleMessages)]

\* storeMessageWithTopic: the properties written back by the updater, computed
\* from the topic as it was read.
UpdatedTopic(currentTopic, msg) ==
    [currentTopic EXCEPT
        !.users = IF Includes(@, UserName(msg)) THEN @
                  ELSE Append(@, UserName(msg)),
        !.sampleMessages = LastN(Append(@, truncate(msg.text, SampleTruncateLength)),
                                 MaxSampleMessages),
        !.messageCount = @ + 1]

\* A context update that never evicts an entry.
UpdatedContextUnbounded(ctx, msg, topicId, topicName) ==
    [exists |-> TRUE,
     recentMessages |-> Append(ctx.recentMessages,
                               [text |-> msg.text, user |-> msg.user,
                                timestamp |-> msg.ts, topicId |-> topicId,
                                topicName |-> topicName]),
     currentTopicId |-> topicId,
     currentTopicName |-> topicName]

\* A context update that sets the current topic only when the channel has none.
UpdatedContextKeepingTopic(ctx, msg, topicId, topicName) ==
    [exists |-> TRUE,
     recentMessages |-> LastN(Append(ctx.recentMessages,
                                     [text |-> msg.text, user |-> msg.user,
                                      timestamp |-> msg.ts, topicId |-> topicId,
                                      topicName |-> topicName]),
                              MaxRecentMessages),
     currentTopicId |-> IF ctx.currentTopicId = 0 THEN topicId ELSE ctx.currentTopicId,
     currentTopicName |-> IF ctx.currentTopicId = 0 THEN topicName
                          ELSE ctx.currentTopicName]

\* storeMessageWithTopic, "Update conversation context"
UpdatedContext(ctx, msg, topicId, topicName) ==
    LET pushed == Append(ctx.recentMessages,
                         [text |-> msg.text, user |-> msg.user,
                          timestamp |-> msg.ts, topicId |-> topicId,
                          topicName |-> topicName])
    IN [exists |-> TRUE,
        recentMessages |-> IF Len(pushed) > MaxRecentMessages THEN Tail(pushed)
                           ELSE pushed,
        currentTopicId |-> topicId,
        currentTopicName |-> topicName]

\* The CategorizationResult returned by categorizeMessage.
Result(p) ==
    [kind |-> "result",
     messageId |-> local[p].messageId,
     topicId |-> local[p].topicId,
     topicName |-> local[p].topicName,
     decision |-> decision[p].action,
     reasoning |-> decision[p].reasoning,
     iterations |-> iterations[p]]

\* storeMessageWithTopic from the updater's call to its return, and the return
\* of categorizeMessage.
WriteTopic(p) ==
    /\ pc[p] = "writeTopic"
    /\ topics' = [topics EXCEPT ![local[p].topicId] =
           UpdatedTopic(local[p].currentTopic, message[p])]
    /\ conversationContext' = [conversationContext EXCEPT ![channelInfo[p].id] =
           UpdatedContext(@, message[p], local[p].topicId, local[p].topicName)]
    /\ Finish(p, "result", Result(p))
    /\ UNCHANGED <<slackMessages, globals, engineVars>>

\* ----------------------------------------------------------- specifications

\* The topic ids a Planner may name.
NameableIds == 0..(Len(topics) + 1)

\* Spec: calls made one after the other (as processMessages makes them), with
\* a Planner that may do anything and a Topic Store whose calls may fail.
Next ==
    \/ \E inp \in Inputs : Start(1, inp, MaxCalls)
    \/ PlannerFails(1)
    \/ PlannerAnswersPlain(1)
    \/ \E n \in 1..MaxToolCalls : PlannerCallsTools(1, n, AnyToolCalls(NameableIds))
    \/ GetContextReturns(1, AnyToolCalls(NameableIds))
    \/ FindTopicsReturns(1, AnyToolCalls(NameableIds))
    \/ UpdateTopic(1)
    \/ CreateTopic(1)
    \/ CreateMessage(1)
    \/ LinkMessage(1)
    \/ ReadTopic(1)
    \/ WriteTopic(1)
    \/ StoreCallFails(1)

Spec == Init /\ [][Next]_vars

\* The ids of the topics in the Topic Store.
ExistingIds == 1..Len(topics)

\* The calls of SpecConcurrent: those with a text.
ConcurrentInputs == {inp \in Inputs : ~IsEmptyMessage(inp.message)}

\* SpecConcurrent: up to NumProcs calls in flight, interleaved at their
\* awaits, with a Planner that follows the prompt's workflow and assigns to
\* topics that exist, and a Topic Store that answers every call.
NextConcurrent ==
    \E p \in Procs :
        \/ \E inp \in ConcurrentInputs : Start(p, inp, MaxConcurrentCalls)
        \/ PlannerCallsTools(p, 1, WorkflowToolCalls(iterations[p], ExistingIds))
        \/ GetContextReturns(p, WorkflowToolCalls(iterations[p], ExistingIds))
        \/ CreateTopic(p)
        \/ CreateMessage(p)
        \/ LinkMessage(p)
        \/ ReadTopic(p)
        \/ WriteTopic(p)

SpecConcurrent == Init /\ [][NextConcurrent]_vars

\* The query the Planner searches with (the message's text, or words of it).
RetrievalQueries == {"let's migrate to postgres", "postgres upgrade"}

MsgMigrate == [ts |-> "100.8", has_text |-> TRUE, text |-> "let's migrate to postgres",
               user |-> "U1", user_name |-> "ann"]

RetrievalInputs == { [message |-> MsgMigrate, channelInfo |-> ChanA] }

\* Topics of a Topic Store that is not empty when the call is made.
MigrationTopic(messageCount) ==
    [NoTopic EXCEPT !.name = "Database Migration",
                    !.keywords = <<"postgres", "migration">>,
                    !.messageCount = messageCount]

UpgradeTopic ==
    [NoTopic EXCEPT !.name = "Postgres Upgrade",
                    !.keywords = <<"postgres", "upgrade">>,
                    !.messageCount = 60]

\* The messageCount of the topic "Database Migration": new, little used and
\* past the count of an active topic.
MessageCounts == {0, 3, 60}

Taxonomies ==
    {<<>>} \cup {<<MigrationTopic(n)>> : n \in MessageCounts}
           \cup {<<MigrationTopic(3), UpgradeTopic>>}

\* The state when categorizeMessage is called on a Topic Store that holds one
\* of Taxonomies.
InitRetrieval ==
    /\ topics \in Taxonomies
    /\ slackMessages = <<>>
    /\ conversationContext = [c \in ChannelIds |-> NoContext]
    /\ currentMessage = NoMessage
    /\ currentChannelInfo = NoChannel
    /\ pc = [p \in Procs |-> "idle"]
    /\ call = [p \in Procs |-> 0]
    /\ message = [p \in Procs |-> NoMessage]
    /\ channelInfo = [p \in Procs |-> NoChannel]
    /\ iterations = [p \in Procs |-> 0]
    /\ decision = [p \in Procs |-> NoDecision]
    /\ turnLeft = [p \in Procs |-> 0]
    /\ observation = [p \in Procs |-> NoObservation]
    /\ local = [p \in Procs |-> NoLocal]
    /\ plannerCalls = [p \in Procs |-> 0]
    /\ allFailed = [p \in Procs |-> TRUE]
    /\ results = <<>>
    /\ returned = NoReturn
    /\ stats = NoStats
    /\ search = [p \in Procs |-> NoSearch]
    /\ matches = <<>>
    /\ recommendation = NoRecommendation
    /\ proposedTopic = NoProposal
    /\ analysis = NoAnalysis

\* The searches a Planner of SpecRetrieval makes for a message
MaxSearches == 2

\* The tool calls of a Planner that searches (in its first iterations) and
\* then decides.
RetrievalToolCalls(its, ids) ==
    (IF its <= MaxSearches THEN {[tool |-> "find_topics", args |-> NoArgs]} ELSE {})
    \cup
    { [tool |-> "categorize", args |-> a] :
          a \in { AssignArgs(t, PlainAssign) : t \in ids \ {0} }
                \cup { CreateArgs(GeneralTopicArgs, "new subject") } }

\* The calls of SpecRetrieval
MaxRetrievalCalls == 1

\* SpecRetrieval: one call of categorizeMessage whose Planner searches with
\* find_topics, each search of which may answer with any ranking of topics of
\* the Topic Store, fail, or never answer.
NextRetrieval ==
    \/ \E inp \in RetrievalInputs : Start(1, inp, MaxRetrievalCalls)
    \/ PlannerCallsTools(1, 1, RetrievalToolCalls(iterations[1], ExistingIds))
    \/ \E query \in RetrievalQueries : StartSearches(1, query)
    \/ \E s \in Strategies, ids \in RankedLists(ExistingIds) : SearchAnswers(1, s, ids)
    \/ \E s \in Strategies : SearchFails(1, s)
    \/ \E s \in Strategies : SearchHangs(1, s)
    \/ FindTopicsSettles(1, RetrievalToolCalls(iterations[1], ExistingIds))
    \/ CreateTopic(1)
    \/ CreateMessage(1)
    \/ LinkMessage(1)
    \/ ReadTopic(1)
    \/ WriteTopic(1)

SpecRetrieval == InitRetrieval /\ [][NextRetrieval]_vars

\* Every await of find_topics has been settled and the handler has not
\* returned yet: the continuation after Promise.all is ready to run.
SettleReady(p) ==
    /\ pc[p] = "find_topics"
    /\ search[p].result = NoObservation
    /\ \A s \in Strategies : search[p][s].status \in {"done", "rejected"}

\* The steps of the Node event loop and of the services it waits for.
RetrievalStep ==
    \/ \E inp \in RetrievalInputs : Start(1, inp, MaxRetrievalCalls)
    \/ PlannerCallsTools(1, 1, RetrievalToolCalls(iterations[1], ExistingIds))
    \/ \E query \in RetrievalQueries : StartSearches(1, query)
    \/ CreateTopic(1)
    \/ CreateMessage(1)
    \/ LinkMessage(1)
    \/ ReadTopic(1)
    \/ WriteTopic(1)

\* A search that was sent comes to its end one way or another: an answer, an
\* error, or a request that is known never to answer.
SearchStep ==
    \E s \in Strategies :
        \/ \E ids \in RankedLists(ExistingIds) : SearchAnswers(1, s, ids)
        \/ SearchFails(1, s)
        \/ SearchHangs(1, s)

\* SpecRetrievalFair: SpecRetrieval where the event loop runs every
\* continuation that is ready.  FindTopicsSettles is enabled exactly when
\* SettleReady holds and ends it, so its weak fairness is []<>~SettleReady(1).
SpecRetrievalFair ==
    /\ InitRetrieval
    /\ [][NextRetrieval]_vars
    /\ WF_vars(RetrievalStep)
    /\ WF_vars(SearchStep)
    /\ []<>(~SettleReady(1))

\* The topics of SpecFusion's Topic Store
MaxFusionTopics == 3

FusionTaxonomy == [i \in 1..MaxFusionTopics |-> MigrationTopic(i)]

\* The three searches of a find_topics have resolved to the lists made of
\* the topics hybridIds, vectorIds and bm25Ids.
ResolvedSearch(query, hybridIds, vectorIds, bm25Ids) ==
    [NoSearch EXCEPT !.query = query,
                     !.hybrid = SearchResolved("hybrid", hybridIds),
                     !.vector = SearchResolved("vector", vectorIds),
                     !.bm25 = SearchResolved("bm25", bm25Ids)]

\* The inputs of reciprocalRankFusion: every three lists that the searches can
\* return over FusionTaxonomy (any ranking of any of its topics, or none).
InitFusion ==
    /\ topics = FusionTaxonomy
    /\ \E hybridIds \in RankedLists(1..MaxFusionTopics),
          vectorIds \in RankedLists(1..MaxFusionTopics),
          bm25Ids \in RankedLists(1..MaxFusionTopics) :
          search = [p \in Procs |->
                       ResolvedSearch("postgres upgrade", hybridIds, vectorIds, bm25Ids)]
    /\ slackMessages = <<>>
    /\ conversationContext = [c \in ChannelIds |-> NoContext]
    /\ currentMessage = NoMessage
    /\ currentChannelInfo = NoChannel
    /\ pc = [p \in Procs |-> "idle"]
    /\ call = [p \in Procs |-> 0]
    /\ message = [p \in Procs |-> NoMessage]
    /\ channelInfo = [p \in Procs |-> NoChannel]
    /\ iterations = [p \in Procs |-> 0]
    /\ decision = [p \in Procs |-> NoDecision]
    /\ turnLeft = [p \in Procs |-> 0]
    /\ observation = [p \in Procs |-> NoObservation]
    /\ local = [p \in Procs |-> NoLocal]
    /\ plannerCalls = [p \in Procs |-> 0]
    /\ allFailed = [p \in Procs |-> TRUE]
    /\ results = <<>>
    /\ returned = NoReturn
    /\ stats = NoStats
    /\ matches = <<>>
    /\ recommendation = NoRecommendation
    /\ proposedTopic = NoProposal
    /\ analysis = NoAnalysis

\* const fusedResults = reciprocalRankFusion([hybridResults, vectorResults,
\* bm25Results]), on its own.
Fuse(p) ==
    /\ search[p].result = NoObservation
    /\ search' = [search EXCEPT ![p].fused = FusedResults(search[p]),
                                ![p].result = find_topics]
    /\ UNCHANGED <<store, conversationContext, globals, procVars, callVars,
                   results, returned, stats, matches, recommendation,
                   proposedTopic, analysis>>

NextFusion == Fuse(1)

\* SpecFusion: reciprocalRankFusion applied to every input of InitFusion.
SpecFusion == InitFusion /\ [][NextFusion]_vars

\* The confidences of the matches of SpecRecommendation: both thresholds,
\* values next to them, and the ends of the scale.
Confidences ==
    {Frac(0, 1), Frac(3, 10), Frac(4999, 10000), Frac(1, 2), Frac(65, 100),
     Frac(79999, 100000), Frac(4, 5), Frac(1, 1)}

\* The matches find_topics hands to generateRecommendation
MaxRecommendedMatches == 2

ScoredMatchLists ==
    UNION { [1..n -> [id : 1..MaxRecommendedMatches, name : {"Database Migration"},
                      confidence : Confidences]] :
                n \in 0..MaxRecommendedMatches }

\* The inputs of generateRecommendation: every list of ScoredMatchLists.
InitRecommendation ==
    /\ matches \in ScoredMatchLists
    /\ topics = <<>>
    /\ search = [p \in Procs |-> NoSearch]
    /\ slackMessages = <<>>
    /\ conversationContext = [c \in ChannelIds |-> NoContext]
    /\ currentMessage = NoMessage
    /\ currentChannelInfo = NoChannel
    /\ pc = [p \in Procs |-> "idle"]
    /\ call = [p \in Procs |-> 0]
    /\ message = [p \in Procs |-> NoMessage]
    /\ channelInfo = [p \in Procs |-> NoChannel]
    /\ iterations = [p \in Procs |-> 0]
    /\ decision = [p \in Procs |-> NoDecision]
    /\ turnLeft = [p \in Procs |-> 0]
    /\ observation = [p \in Procs |-> NoObservation]
    /\ local = [p \in Procs |-> NoLocal]
    /\ plannerCalls = [p \in Procs |-> 0]
    /\ allFailed = [p \in Procs |-> TRUE]
    /\ results = <<>>
    /\ returned = NoReturn
    /\ stats = NoStats
    /\ recommendation = NoRecommendation
    /\ proposedTopic = NoProposal
    /\ analysis = NoAnalysis

\* const recommendation = generateRecommendation(scoredMatches), on its own.
Recommend ==
    /\ recommendation = NoRecommendation
    /\ recommendation' = generateRecommendation(matches)
    /\ UNCHANGED <<store, conversationContext, globals, procVars, callVars,
                   results, returned, stats, search, matches, proposedTopic,
                   analysis>>

NextRecommendation == Recommend

\* SpecRecommendation: generateRecommendation applied to every input of
\* InitRecommendation.
SpecRecommendation == InitRecommendation /\ [][NextRecommendation]_vars

\* The topics of SpecValidator's Topic Stores: with and without a description,
\* with and without keywords.
ValidatorTopics ==
    { [NoTopic EXCEPT !.name = n, !.description = d, !.keywords = k] :
          n \in {"Database Migration", "Database Migrations", "Deploys"},
          d \in {"", "Moving data to postgres"},
          k \in {<<>>, <<"postgres", "migration">>} }

\* The topics of a Topic Store of SpecValidator
MaxValidatorTopics == 2

ValidatorTaxonomies ==
    UNION { {l \in [1..n -> ValidatorTopics] : \A i, j \in 1..n : i # j => l[i] # l[j]} :
                n \in 0..MaxValidatorTopics }

\* The proposals of SpecValidator: a name that a topic has, an abbreviation of
\* it, or another one; keywords may be missing, empty or given.
Proposals ==
    { [name |-> n, description |-> d, has_keywords |-> k[1], keywords |-> k[2]] :
          n \in {"Database Migration", "DB Migration", "Deploys"},
          d \in {"", "Moving data to postgres"},
          k \in {<<FALSE, <<>> >>, <<TRUE, <<>> >>, <<TRUE, <<"postgres", "migration">> >>} }

\* The inputs of validateNewTopic: every proposal of Proposals over every
\* Topic Store of ValidatorTaxonomies.
InitValidator ==
    /\ topics \in ValidatorTaxonomies
    /\ proposedTopic \in Proposals
    /\ slackMessages = <<>>
    /\ conversationContext = [c \in ChannelIds |-> NoContext]
    /\ currentMessage = NoMessage
    /\ currentChannelInfo = NoChannel
    /\ pc = [p \in Procs |-> "idle"]
    /\ call = [p \in Procs |-> 0]
    /\ message = [p \in Procs |-> NoMessage]
    /\ channelInfo = [p \in Procs |-> NoChannel]
    /\ iterations = [p \in Procs |-> 0]
    /\ decision = [p \in Procs |-> NoDecision]
    /\ turnLeft = [p \in Procs |-> 0]
    /\ observation = [p \in Procs |-> NoObservation]
    /\ local = [p \in Procs |-> NoLocal]
    /\ plannerCalls = [p \in Procs |-> 0]
    /\ allFailed = [p \in Procs |-> TRUE]
    /\ results = <<>>
    /\ returned = NoReturn
    /\ stats = NoStats
    /\ search = [p \in Procs |-> NoSearch]
    /\ matches = <<>>
    /\ recommendation = NoRecommendation
    /\ analysis = NoAnalysis

\* The result of validateNewTopic, kept.
Validated(result) ==
    [shouldCreate |-> result.shouldCreate, suggestions |-> result.suggestions,
     validated |-> TRUE]

\* const result = await validateNewTopic(proposedTopic), on its own.
Validate ==
    /\ ~analysis.validated
    /\ analysis' = Validated(validateNewTopic(proposedTopic, topics))
    /\ UNCHANGED <<store, conversationContext, globals, procVars, callVars,
                   results, returned, stats, search, matches, recommendation,
                   proposedTopic>>

NextValidator == Validate

\* SpecValidator: validateNewTopic applied to every input of InitValidator.
SpecValidator == InitValidator /\ [][NextValidator]_vars

\* The names and queries of SpecConfidence: empty, written only in characters
\* the normalizer strips, equal after normalization, and different.
ConfidenceNames ==
    {"", "!!!", "???", "Deploys", "deploys!", "Database Migration"}

\* The keyword lists of SpecConfidence: empty, keywords that differ by one
\* letter, keywords that are equal after normalization, and unrelated ones.
ConfidenceKeywords ==
    {<<>>, <<"deployment">>, <<"deployment", "deployments">>,
     <<"Deployment", "deployment">>, <<"postgres", "migration">>}

\* The messageCount of the topics of SpecConfidence
ConfidenceCounts == {0, 25, 50, 500}

\* The fused scores of SpecConfidence: a topic at rank 1 of one list, at rank 1
\* of the three lists, and without a rank in one list.
ConfidenceScores == {Frac(1, RRF_K + 1), Frac(3, RRF_K + 1), Frac(1, RRF_K + MissingRank)}

\* A find_topics that has fused one topic and is about to score it with the
\* keywords messageKeywords.
ConfidenceSearch(query, messageKeywords, rrfScore) ==
    [query |-> query, keywords |-> messageKeywords, hybrid |-> NotAsked,
     vector |-> NotAsked, bm25 |-> NotAsked,
     fused |-> <<[id |-> 1, rrfScore |-> rrfScore]>>, result |-> NoObservation]

\* The inputs of calculateConfidence: every topic, query, keyword list and
\* fused score of the sets above.
InitConfidence ==
    /\ \E name \in ConfidenceNames, keywords \in ConfidenceKeywords,
          messageCount \in ConfidenceCounts :
          topics = <<[NoTopic EXCEPT !.name = name, !.keywords = keywords,
                                     !.messageCount = messageCount]>>
    /\ \E query \in ConfidenceNames, messageKeywords \in ConfidenceKeywords,
          rrfScore \in ConfidenceScores :
          search = [p \in Procs |-> ConfidenceSearch(query, messageKeywords, rrfScore)]
    /\ slackMessages = <<>>
    /\ conversationContext = [c \in ChannelIds |-> NoContext]
    /\ currentMessage = NoMessage
    /\ currentChannelInfo = NoChannel
    /\ pc = [p \in Procs |-> "idle"]
    /\ call = [p \in Procs |-> 0]
    /\ message = [p \in Procs |-> NoMessage]
    /\ channelInfo = [p \in Procs |-> NoChannel]
    /\ iterations = [p \in Procs |-> 0]
    /\ decision = [p \in Procs |-> NoDecision]
    /\ turnLeft = [p \in Procs |-> 0]
    /\ observation = [p \in Procs |-> NoObservation]
    /\ local = [p \in Procs |-> NoLocal]
    /\ plannerCalls = [p \in Procs |-> 0]
    /\ allFailed = [p \in Procs |-> TRUE]
    /\ results = <<>>
    /\ returned = NoReturn
    /\ stats = NoStats
    /\ matches = <<>>
    /\ recommendation = NoRecommendation
    /\ proposedTopic = NoProposal
    /\ analysis = NoAnalysis

\* The topic calculateConfidence is given: the fused entry with the topic's data.
FusedTopic(entry, topic) ==
    [rrfScore |-> entry.rrfScore, name |-> topic.name, keywords |-> topic.keywords,
     messageCount |-> topic.messageCount]

\* const { confidence, factors } = calculateConfidence(topic, query,
\* messageKeywords), on its own.
Score(p) ==
    /\ matches = <<>>
    /\ matches' =
           [i \in 1..Len(search[p].fused) |->
               [id |-> search[p].fused[i].id,
                confidence |->
                    calculateConfidence(
                        FusedTopic(search[p].fused[i], topics[search[p].fused[i].id]),
                        search[p].query, search[p].keywords),
                factors |->
                    ConfidenceFactors(
                        FusedTopic(search[p].fused[i], topics[search[p].fused[i].id]),
                        search[p].query, search[p].keywords)]]
    /\ UNCHANGED <<store, conversationContext, globals, procVars, callVars,
                   results, returned, stats, search, recommendation,
                   proposedTopic, analysis>>

NextConfidence == Score(1)

\* SpecConfidence: calculateConfidence applied to every input of InitConfidence.
SpecConfidence == InitConfidence /\ [][NextConfidence]_vars

\* The calls made in a behaviour of SpecApply
MaxApplyCalls == 2

\* The messages applied before a behaviour of SpecApply starts: the i-th
\* message of the channel "general".
HistoryMessage(i) ==
    [ts |-> "90." \o ToString(i), has_text |-> TRUE,
     text |-> "standup note " \o ToString(i),
     user |-> IF i % 2 = 1 THEN "U3" ELSE "U4",
     user_name |-> IF i % 2 = 1 THEN "cy" ELSE ""]

HistoryTopicName == "Standup"

\* How many messages were applied before: none, as many as sampleMessages
\* holds, one less than recentMessages holds, and as many.
HistoryLengths == {0, MaxSampleMessages, MaxRecentMessages - 1, MaxRecentMessages}

\* The topic after the first n messages of the history: the first one created
\* it ("create" Decision), every message was stored with storeMessageWithTopic.
RECURSIVE HistoryTopic(_)
HistoryTopic(n) ==
    IF n = 0 THEN
        createTopicInDB(HistoryTopicName, "Daily standup notes", <<"standup">>,
                        <<UserName(HistoryMessage(1))>>,
                        <<truncate(HistoryMessage(1).text, SampleTruncateLength)>>, 0)
    ELSE UpdatedTopic(HistoryTopic(n - 1), HistoryMessage(n))

\* The context of the channel after the first n messages of the history.
RECURSIVE HistoryContext(_)
HistoryContext(n) ==
    IF n = 0 THEN NoContext
    ELSE UpdatedContext(HistoryContext(n - 1), HistoryMessage(n), 1, HistoryTopicName)

\* The SlackMessage objects of the first n messages of the history.
HistorySlackMessages(n) ==
    [i \in 1..n |->
        [text |-> HistoryMessage(i).text, user |-> HistoryMessage(i).user,
         userName |-> UserName(HistoryMessage(i)), timestamp |-> HistoryMessage(i).ts,
         channelId |-> ChanA.id, channelName |-> ChanA.name,
         topic |-> 1, createdBy |-> 0]]

\* A message longer than a sample may be.
MsgLong101 == [ts |-> "100.4", has_text |-> TRUE, text |-> Rep("abcdefghij", 10) \o "k",
               user |-> "U1", user_name |-> "ann"]

\* The calls of SpecApply.
ApplyInputs ==
    { [message |-> MsgOk,      channelInfo |-> ChanA],
      [message |-> MsgEdge14,  channelInfo |-> ChanA],
      [message |-> MsgLong101, channelInfo |-> ChanB] }

\* The stores and contexts SpecApply starts from: those that n calls on the
\* channel "general", one after the other, leave behind.
InitApply ==
    /\ \E n \in HistoryLengths :
          /\ topics = IF n = 0 THEN <<>> ELSE <<HistoryTopic(n)>>
          /\ slackMessages = HistorySlackMessages(n)
          /\ conversationContext =
                 [c \in ChannelIds |-> IF c = ChanA.id THEN HistoryContext(n)
                                       ELSE NoContext]
    /\ currentMessage = NoMessage
    /\ currentChannelInfo = NoChannel
    /\ pc = [p \in Procs |-> "idle"]
    /\ call = [p \in Procs |-> 0]
    /\ message = [p \in Procs |-> NoMessage]
    /\ channelInfo = [p \in Procs |-> NoChannel]
    /\ iterations = [p \in Procs |-> 0]
    /\ decision = [p \in Procs |-> NoDecision]
    /\ turnLeft = [p \in Procs |-> 0]
    /\ observation = [p \in Procs |-> NoObservation]
    /\ local = [p \in Procs |-> NoLocal]
    /\ plannerCalls = [p \in Procs |-> 0]
    /\ allFailed = [p \in Procs |-> TRUE]
    /\ results = <<>>
    /\ returned = NoReturn
    /\ stats = NoStats
    /\ search = [p \in Procs |-> NoSearch]
    /\ matches = <<>>
    /\ recommendation = NoRecommendation
    /\ proposedTopic = NoProposal
    /\ analysis = NoAnalysis

\* SpecApply: calls made one after the other on a store that holds a history,
\* with a Planner that follows the prompt's workflow and a Topic Store that
\* answers every call.
NextApply ==
    \/ \E inp \in ApplyInputs : Start(1, inp, MaxApplyCalls)
    \/ PlannerCallsTools(1, 1, WorkflowToolCalls(iterations[1], ExistingIds))
    \/ GetContextReturns(1, WorkflowToolCalls(iterations[1], ExistingIds))
    \/ CreateTopic(1)
    \/ CreateMessage(1)
    \/ LinkMessage(1)
    \/ ReadTopic(1)
    \/ WriteTopic(1)

SpecApply == InitApply /\ [][NextApply]_vars

\* -------------------------------------------------------------- properties

\* The awaits of GATHERING: the Planner, get_context, find_topics.
GatheringPcs == {"planner", "get_context", "find_topics"}

\* C1: for every non-empty message and every Planner behaviour, the Planner is
\* consulted at most maxIterations (5) times per call, the loop counter never
\* passes maxIterations, and the iteration count categorizeMessage reports
\* (in its result, or with the error it throws) is at most maxIterations.
C1_IterationBound ==
    /\ \A p \in Procs :
          /\ iterations[p] <= DefaultMaxIterations
          /\ plannerCalls[p] <= DefaultMaxIterations
          /\ plannerCalls[p] = iterations[p]
    /\ returned.kind \in {"result", "planner_error"} =>
          returned.iterations <= DefaultMaxIterations

\* A call that used all maxIterations Planner calls has returned its result.
C1_Witness ==
    /\ returned.kind = "result"
    /\ returned.iterations = DefaultMaxIterations

\* C2: when the Planner call fails on every iteration up to and including the
\* last allowed one, categorizeMessage does not raise the Planner error (it
\* goes on to FALLBACK).
C2_PlannerFailureRoutesToFallback ==
    ~(returned.kind = "planner_error" /\ returned.allFailed)

\* What a create Decision proposes to the Duplicate Validator.
ProposedTopic(dec) ==
    [name |-> dec.name, description |-> dec.description, has_keywords |-> TRUE,
     keywords |-> dec.keywords]

\* The create of call p went through although the validation said otherwise.
CreateReroutes(p, validation) ==
    ~validation.shouldCreate =>
        /\ Len(topics') = Len(topics)
        /\ local'[p].topicId = validation.suggestions[1].topicId

\* C3: whenever a create Decision is applied and the Duplicate Validator, run
\* against the topics of the Topic Store as they are then, yields
\* shouldCreate = false, no topic is created and the message is assigned to
\* the top suggestion.
C3_CreateRespectsValidator ==
    [][\A p \in Procs :
          (pc[p] = "createTopic" /\ pc'[p] = "createMessage") =>
              CreateReroutes(p, validateNewTopic(ProposedTopic(decision[p]), topics))
      ]_vars

\* C4: when a Topic Store call of APPLY fails, nothing the call wrote before
\* remains: no topic and no stored message of that call.
C4_FailedApplyLeavesNothing ==
    \A k \in 1..Len(results) :
        results[k].kind = "store_error" =>
            /\ \A t \in 1..Len(topics) : topics[t].createdBy # k
            /\ \A m \in 1..Len(slackMessages) : slackMessages[m].createdBy # k

\* Call p takes the step.
Moved(p) ==
    \/ pc'[p] # pc[p]
    \/ iterations'[p] # iterations[p]
    \/ turnLeft'[p] # turnLeft[p]

\* C5: a step of GATHERING (a Planner answer, a get_context or find_topics
\* return, with any rejected categorize calls in it) changes neither the Topic
\* Store nor any channel's ConversationState; what changes them is a step of
\* APPLY; a call that has entered APPLY never goes back to GATHERING, and no
\* call stores more than one message or creates more than one topic.
C5_OnlyApplyWrites ==
    [][/\ \A p \in Procs :
             /\ (pc[p] \in GatheringPcs /\ Moved(p))
                    => UNCHANGED <<topics, slackMessages, conversationContext>>
             /\ pc[p] \in StoreCalls => pc'[p] \in StoreCalls \cup {"idle"}
       /\ (\A p \in Procs : pc[p] \notin StoreCalls)
              => UNCHANGED <<topics, slackMessages, conversationContext>>
       /\ \A k \in 1..Len(results') :
             /\ Cardinality({m \in 1..Len(slackMessages') :
                                slackMessages'[m].createdBy = k}) <= 1
             /\ Cardinality({t \in 1..Len(topics') : topics'[t].createdBy = k}) <= 1
      ]_vars

\* The second call is in GATHERING, after a get_context and a rejected
\* categorize call, and the first call's message is the only one stored.
C5_Witness ==
    /\ Len(results) = 2
    /\ results[1].kind = "result"
    /\ pc[1] = "planner"
    /\ iterations[1] = 3
    /\ observation[1].tool = "categorize"
    /\ Len(slackMessages) = 1

\* The calls that returned a result for topic t.
AppliedTo(t) ==
    {k \in 1..Len(results) : results[k].kind = "result" /\ results[k].topicId = t}

\* C6: when calls APPLY messages to the same topic concurrently, every update
\* takes effect under every interleaving: the topic's messageCount is the
\* number of messages applied to it (two applies: + 2), every applied
\* message is among its sampleMessages and every contributor among its users.
C6_ConcurrentAppliesAllTakeEffect ==
    \A t \in 1..Len(topics) :
        /\ topics[t].messageCount = Cardinality(AppliedTo(t))
        /\ \A k \in AppliedTo(t) :
              /\ Includes(topics[t].users, UserName(results[k].message))
              /\ Includes(topics[t].sampleMessages,
                          truncate(results[k].message.text, SampleTruncateLength))

\* C7: no step makes the messageCount of a topic smaller, whatever the
\* interleaving of the APPLY steps of concurrent calls.
C7_MessageCountNeverDecreases ==
    [][\A t \in 1..Len(topics) :
          topics'[t].messageCount >= topics[t].messageCount]_vars

\* C8: what get_context returns to a call is that call's own message and
\* channel, under every interleaving with other calls.
C8_GetContextObservesOwnMessage ==
    \A p \in Procs :
        observation[p].tool = "get_context" =>
            /\ observation[p].current_message.text = message[p].text
            /\ observation[p].current_message.user = message[p].user
            /\ observation[p].channel.id = channelInfo[p].id
            /\ observation[p].channel.name = channelInfo[p].name

\* The Decision FALLBACK must build for message msg in a channel whose
\* ConversationState is ctx.
IsFallbackDecision(dec, msg, ctx) ==
    IF Len(msg.text) < 15 /\ ctx.exists /\ ctx.currentTopicId # 0
    THEN /\ dec.action = "assign"
         /\ dec.topic_id = ctx.currentTopicId
    ELSE /\ dec.action = "create"
         /\ dec.name = "General Discussion"
         /\ dec.description = "General messages and conversations"
         /\ dec.keywords = <<"general", "chat", "discussion">>

\* C9: a call enters APPLY with a Decision; when the loop ended without one
\* (FALLBACK, after maxIterations Planner calls and with no further one), the
\* Decision is an assign to the channel's active topic if the text is shorter
\* than 15 characters and the channel has an active topic, and a create of
\* "General Discussion" otherwise; a call whose FALLBACK assigned creates no
\* topic.
C9_FallbackDecision ==
    [][\A p \in Procs :
          /\ (pc[p] \notin StoreCalls /\ pc'[p] \in StoreCalls) =>
                /\ decision'[p].action \in {"assign", "create"}
                /\ local'[p].fallback =>
                      /\ decision[p].action = "none"
                      /\ iterations'[p] = DefaultMaxIterations
                      /\ plannerCalls'[p] = plannerCalls[p]
                      /\ IsFallbackDecision(decision'[p], message'[p],
                                            conversationContext[channelInfo'[p].id])
          /\ (local'[p].fallback /\ decision'[p].action = "assign") =>
                /\ pc'[p] # "createTopic"
                /\ \A t \in 1..Len(topics') : topics'[t].createdBy # call'[p]
      ]_vars

\* FALLBACK assigned a message shorter than 15 characters to the channel's
\* active topic.
C9_Witness ==
    \E p \in Procs :
        /\ local[p].fallback
        /\ decision[p].action = "assign"
        /\ Len(message[p].text) = 14
        /\ pc[p] = "readTopic"

\* A text with a character that is not whitespace.
HasVisibleText(msg) ==
    /\ msg.has_text
    /\ \E i \in 1..Len(msg.text) : CharAt(msg.text, i) \notin {" ", "\t", "\n"}

\* C10: a call with a message whose text is missing, empty or only whitespace
\* returns null (no error); the call consults no Planner and leaves the
\* Topic Store, the ConversationState and the tool handlers' current message
\* and channel as they are.
C10_EmptyMessageReturnsNull ==
    [][\A k \in 1..Len(results') :
          ~HasVisibleText(results'[k].message) =>
              /\ results'[k].kind = "null"
              /\ k > Len(results) =>
                    /\ returned'.kind = "null"
                    /\ UNCHANGED <<topics, slackMessages, conversationContext,
                                   currentMessage, currentChannelInfo,
                                   plannerCalls, iterations, pc>>
      ]_vars

\* A call with an empty message returned null after a call that stored its
\* message.
C10_Witness ==
    /\ Len(results) = 2
    /\ results[1].kind = "result"
    /\ results[2].kind = "null"
    /\ returned.kind = "null"
    /\ Len(slackMessages) = 1
    /\ currentMessage = results[1].message

\* The observation pushed for an assign call without topic_id.
TopicIdRequired ==
    [tool |-> "categorize", error |-> "topic_id is required when action is \"assign\""]

C12_DecisionCarriesReasoning ==
    /\ \A p \in Procs :
           pc[p] \in StoreCalls => decision[p].reasoning # NoReasoning
    /\ returned.kind = "result" => returned.reasoning # NoReasoning

\* The calls of the batch that ended, and those that ended with kind k.
Ended == {i \in 1..Len(results) : results[i].kind # "pending"}
EndedWith(kinds) == {i \in Ended : results[i].kind \in kinds}
ErrorKinds == {"planner_error", "store_error"}

\* C15: in a batch, an error raised by one message is recorded for that
\* message and counted as failed, the batch goes on with the next message
\* (the loop is never left early), and processed + skipped + failed is the
\* number of messages handled: the size of the batch at its end.
C15_BatchCountsEveryMessage ==
    /\ stats.processed = Cardinality(EndedWith({"result"}))
    /\ stats.skipped = Cardinality(EndedWith({"null"}))
    /\ stats.failed = Cardinality(EndedWith(ErrorKinds))
    /\ stats.processed + stats.skipped + stats.failed = Cardinality(Ended)
    /\ (\A p \in Procs : pc[p] = "idle") =>
           /\ Ended = 1..Len(results)
           /\ Len(results) < MaxCalls =>
                  \A inp \in Inputs : ENABLED Start(1, inp, MaxCalls)

\* The first message of a batch failed, the second one was processed, and the
\* batch is complete.
C15_Witness ==
    /\ Len(results) = MaxCalls
    /\ results[1].kind \in ErrorKinds
    /\ results[MaxCalls].kind = "result"
    /\ stats.processed + stats.skipped + stats.failed = MaxCalls

\* One search of the find_topics of call p got no answer and never will, and
\* the other two resolved.
OneSearchLost(p) ==
    \E s \in Strategies :
        /\ search[p][s].status = "lost"
        /\ \A t \in Strategies \ {s} : search[p][t].status = "done"

\* C13: when one of the three searches never answers while the other two
\* answer, find_topics still returns in the end (with what the two lists
\* give), so that the loop can go on to a decision or to the fallback.
C13_LostSearchStillReturns ==
    \A p \in Procs :
        (pc[p] = "find_topics" /\ OneSearchLost(p)) ~> (pc[p] # "find_topics")

\* The lists of the searches that did not fail, in the order of Promise.all.
SucceededLists(s) ==
    (IF s.hybrid.failed THEN <<>> ELSE <<s.hybrid.results>>)
    \o (IF s.vector.failed THEN <<>> ELSE <<s.vector.results>>)
    \o (IF s.bm25.failed THEN <<>> ELSE <<s.bm25.results>>)

\* The ids of a list of matches or of fused entries, in order.
IdsOf(list) == [i \in 1..Len(list) |-> list[i].id]

\* The first n elements of a list (all of them when it is shorter).
FirstOf(list, n) == SubSeq(list, 1, IF Len(list) < n THEN Len(list) ELSE n)

PositionIn(list, id) ==
    IF \E i \in 1..Len(list) : list[i].id = id
    THEN CHOOSE i \in 1..Len(list) : list[i].id = id
    ELSE 0

\* 1/(K + rank) for the rank of id in a list, 0 when the list has not got it.
ReciprocalRank(list, id) ==
    IF PositionIn(list, id) = 0 THEN Frac(0, 1)
    ELSE Frac(1, RRF_K + PositionIn(list, id))

\* The sum of the reciprocal ranks of id over the three lists.
ExpectedRrf(s, id) ==
    FracAdd(FracAdd(ReciprocalRank(s.hybrid.results, id),
                    ReciprocalRank(s.vector.results, id)),
            ReciprocalRank(s.bm25.results, id))

\* The ids that occur in at least one of the three lists.
ListedIds(s) ==
    {s.hybrid.results[i].id : i \in 1..Len(s.hybrid.results)}
    \cup {s.vector.results[i].id : i \in 1..Len(s.vector.results)}
    \cup {s.bm25.results[i].id : i \in 1..Len(s.bm25.results)}

\* When id is first met by a reader of the hybrid, then the vector, then the
\* bm25 list.
FirstSeen(s, id) ==
    PositionIn(s.hybrid.results \o s.vector.results \o s.bm25.results, id)

\* C16: reciprocalRankFusion returns every topic id that occurs in one of its
\* lists exactly once, with the sum over the lists of 1/(60 + rank) (rank
\* counted from 1 in that list, nothing for a list without the topic) as its
\* score; the entries are in descending order of score, and entries of equal
\* score are in the order in which the lists first name them.
C16_FusionSumsReciprocalRanks ==
    \A p \in Procs :
        search[p].result # NoObservation =>
            /\ {search[p].fused[i].id : i \in 1..Len(search[p].fused)} = ListedIds(search[p])
            /\ Len(search[p].fused) = Cardinality(ListedIds(search[p]))
            /\ \A i \in 1..Len(search[p].fused) :
                  FracEq(search[p].fused[i].rrfScore,
                         ExpectedRrf(search[p], search[p].fused[i].id))
            /\ \A i, j \in 1..Len(search[p].fused) :
                  i < j =>
                     /\ FracAtLeast(search[p].fused[i].rrfScore, search[p].fused[j].rrfScore)
                     /\ FracEq(search[p].fused[i].rrfScore, search[p].fused[j].rrfScore)
                           => FirstSeen(search[p], search[p].fused[i].id)
                                 < FirstSeen(search[p], search[p].fused[j].id)

\* Three topics were fused, and two of them with the same score stand in
\* the order the lists first name them, which is not the order of their ids.
C16_Witness ==
    \E p \in Procs :
        /\ search[p].result # NoObservation
        /\ Len(search[p].fused) = MaxFusionTopics
        /\ \E i \in 1..(Len(search[p].fused) - 1) :
              /\ FracEq(search[p].fused[i].rrfScore, search[p].fused[i + 1].rrfScore)
              /\ search[p].fused[i].id > search[p].fused[i + 1].id

\* C17: generateRecommendation decides on the first match alone: "assign"
\* when its confidence is at least 0.80, "review" when it is at least 0.50 and
\* below 0.80, "create" when it is below 0.50 or when there is no match (then
\* with confidence 0); so 0.80 gives "assign", 0.79999 "review" and 0.4999
\* "create".
C17_RecommendationThresholds ==
    recommendation # NoRecommendation =>
        /\ recommendation.action \in {"assign", "review", "create"}
        /\ Len(matches) = 0 =>
              /\ recommendation.action = "create"
              /\ recommendation.confidence = Frac(0, 1)
        /\ Len(matches) > 0 =>
              /\ recommendation.confidence = matches[1].confidence
              /\ recommendation.action = "assign"
                    <=> 100 * matches[1].confidence.num >= 80 * matches[1].confidence.den
              /\ recommendation.action = "review"
                    <=> /\ 100 * matches[1].confidence.num >= 50 * matches[1].confidence.den
                        /\ 100 * matches[1].confidence.num < 80 * matches[1].confidence.den
              /\ recommendation.action = "create"
                    <=> 100 * matches[1].confidence.num < 50 * matches[1].confidence.den
              /\ recommendation.action # "create" =>
                    recommendation.suggested_topic_id = matches[1].id
              /\ matches[1].confidence = Frac(4, 5) => recommendation.action = "assign"
              /\ matches[1].confidence = Frac(79999, 100000) =>
                    recommendation.action = "review"
              /\ matches[1].confidence = Frac(4999, 10000) =>
                    recommendation.action = "create"

\* A first match of confidence 0.79999 is followed by a match of confidence 1
\* on another topic: the recommendation is "review", for the first match.
C17_Witness ==
    /\ Len(matches) = 2
    /\ matches[1].confidence = Frac(79999, 100000)
    /\ matches[2].confidence = Frac(1, 1)
    /\ matches[2].id # matches[1].id
    /\ recommendation # NoRecommendation
    /\ recommendation.action = "review"
    /\ recommendation.suggested_topic_id = matches[1].id

\* find_topics returned for the query "let's migrate to postgres" over a Topic
\* Store whose only topic is "Database Migration" (keywords postgres and
\* migration), each of the three searches having put it first.
MigrationFound(p) ==
    /\ search[p].result # NoObservation
    /\ search[p].query = "let's migrate to postgres"
    /\ Len(topics) = 1
    /\ topics[1].name = "Database Migration"
    /\ topics[1].keywords = <<"postgres", "migration">>
    /\ search[p].hybrid.results = hybridSearchTopics(<<1>>)
    /\ search[p].vector.results = semanticSearchTopics(<<1>>)
    /\ search[p].bm25.results = keywordSearchTopics(<<1>>)

\* C18: with the single topic "Database Migration" (keywords postgres,
\* migration) in the taxonomy, find_topics for "let's migrate to postgres",
\* whose three searches all rank that topic first, gives the topic a
\* confidence of at least 0.8 and recommends "assign".
C18_MigrationQueryIsAssigned ==
    \A p \in Procs :
        MigrationFound(p) =>
            /\ Len(search[p].result.matches) = 1
            /\ 10 * search[p].result.matches[1].confidence.num
                  >= 8 * search[p].result.matches[1].confidence.den
            /\ search[p].result.recommendation.action = "assign"

\* The proposal is the existing topic: same name, description and keywords.
IdenticalTo(proposal, topic) ==
    /\ proposal.name = topic.name
    /\ proposal.description = topic.description
    /\ proposal.has_keywords
    /\ proposal.keywords = topic.keywords

\* C19: for every existing topic, whatever its description and keywords
\* (empty ones included), the validation of a proposal identical to it says
\* not to create, and its first suggestion recommends "use_existing" with a
\* combined score of at least 0.9.
C19_IdenticalProposalUsesExisting ==
    \A t \in 1..Len(topics) :
        (analysis.validated /\ IdenticalTo(proposedTopic, topics[t])) =>
            /\ ~analysis.shouldCreate
            /\ Len(analysis.suggestions) > 0
            /\ analysis.suggestions[1].recommendation = "use_existing"
            /\ 10 * analysis.suggestions[1].combinedScore.num
                  >= 9 * analysis.suggestions[1].combinedScore.den

\* 0.5 * name + 0.2 * description + 0.3 * keywords for the existing topic,
\* from the three similarities of the proposal to it.
CombinedWith(proposal, topic) ==
    FracAdd(FracAdd(FracMul(Frac(1, 2), fuzzySimilarity(proposal.name, topic.name)),
                    FracMul(Frac(1, 5),
                            IF proposal.description = "" THEN Frac(0, 1)
                            ELSE fuzzySimilarity(proposal.description,
                                                 topic.description))),
            FracMul(Frac(3, 10),
                    keywordOverlap(ProposedKeywords(proposal), topic.keywords)))

\* C20: for every proposal and every non-empty taxonomy, the validation says
\* to create exactly when no existing topic has a combined score of at least
\* 0.5; otherwise its first suggestion is a topic of the highest combined
\* score, recommended as "use_existing" when the score is at least 0.7 and as
\* "consider_merge" when it is at least 0.5 and below 0.7.
C20_ShouldCreateBelowHalf ==
    (analysis.validated /\ Len(topics) > 0) =>
        /\ analysis.shouldCreate
              <=> \A t \in 1..Len(topics) :
                      FracLT(CombinedWith(proposedTopic, topics[t]), Frac(1, 2))
        /\ ~analysis.shouldCreate =>
              /\ Len(analysis.suggestions) > 0
              /\ analysis.suggestions[1].topicId \in 1..Len(topics)
              /\ FracEq(analysis.suggestions[1].combinedScore,
                        CombinedWith(proposedTopic,
                                     topics[analysis.suggestions[1].topicId]))
              /\ \A t \in 1..Len(topics) :
                    FracGE(analysis.suggestions[1].combinedScore,
                           CombinedWith(proposedTopic, topics[t]))
              /\ analysis.suggestions[1].recommendation =
                    (IF FracGE(analysis.suggestions[1].combinedScore, Frac(7, 10))
                     THEN "use_existing" ELSE "consider_merge")

\* The second topic of the Topic Store scores exactly 0.5 (its name alone
\* matches) and more than the first: it is the first suggestion, to merge,
\* and the topic is not created.
C20_Witness ==
    /\ analysis.validated
    /\ Len(topics) = 2
    /\ ~analysis.shouldCreate
    /\ Len(analysis.suggestions) = 2
    /\ analysis.suggestions[1].topicId = 2
    /\ FracEq(analysis.suggestions[1].combinedScore, Frac(1, 2))
    /\ analysis.suggestions[1].recommendation = "consider_merge"

\* C21: fuzzySimilarity is 0 whenever one of its two strings is empty or
\* normalizes to the empty string, also when both do.
C21_EmptySimilarityIsZero ==
    \A i \in 1..Len(matches) :
        (normalizeText(search[1].query) = ""
            \/ normalizeText(topics[matches[i].id].name) = "")
        => matches[i].factors.nameSimilarity = Frac(0, 1)

\* The four factors of a scored match, in the order of their weights.
FactorsOf(match) ==
    <<match.factors.rrfScore, match.factors.keywordOverlap,
      match.factors.nameSimilarity, match.factors.recencyBoost>>

InUnitInterval(x) == FracGE(x, Frac(0, 1)) /\ FracGE(Frac(1, 1), x)

\* 0.4*a + 0.3*b + 0.2*c + 0.1*d over the common denominator of a, b, c and d.
TenthsOf(f) ==
    Reduced(4 * f[1].num * f[2].den * f[3].den * f[4].den
              + 3 * f[2].num * f[1].den * f[3].den * f[4].den
              + 2 * f[3].num * f[1].den * f[2].den * f[4].den
              + f[4].num * f[1].den * f[2].den * f[3].den,
            10 * f[1].den * f[2].den * f[3].den * f[4].den)

C30_KeywordOverlapIsSymmetric ==
    \A i \in 1..Len(matches) :
        FracEq(matches[i].factors.keywordOverlap,
               keywordOverlap(topics[matches[i].id].keywords, search[1].keywords))

\* C26: once a categorize call of a Planner turn has produced a Decision, no
\* later tool call of that turn is executed: a call that holds a Decision is
\* not inside a tool handler.
C26_DecisionEndsTheTurn ==
    \A p \in Procs :
        IsDecision(decision[p]) => pc[p] \notin {"get_context", "find_topics"}

\* The calls p and q hold "create" Decisions for the same proposed topic.
SameProposal(p, q) ==
    /\ decision[p].action = "create"
    /\ decision[q].action = "create"
    /\ decision[p].name = decision[q].name
    /\ decision[p].description = decision[q].description
    /\ decision[p].keywords = decision[q].keywords

\* C27: when two calls in flight at the same time both reach a "create"
\* Decision for the same proposed topic, at most one new topic is created: once
\* both have their topic, it is the same topic.
C27_ConcurrentCreatesMakeOneTopic ==
    \A p, q \in Procs :
        (p # q /\ SameProposal(p, q) /\ local[p].topicId # 0 /\ local[q].topicId # 0)
        => local[p].topicId = local[q].topicId

\* The newest entry of a channel's recentMessages.
Newest(c) == conversationContext[c].recentMessages[Len(conversationContext[c].recentMessages)]

\* C28: in every reachable state, also with the APPLYs of concurrent calls on
\* one channel interleaved, each channel that has a context has the topic (id
\* and name) of its newest recentMessages entry as its current topic.
C28_CurrentTopicIsNewestActivity ==
    \A c \in ChannelIds :
        conversationContext[c].exists
        => /\ Len(conversationContext[c].recentMessages) > 0
           /\ conversationContext[c].currentTopicId = Newest(c).topicId
           /\ conversationContext[c].currentTopicName = Newest(c).topicName

\* Two calls on one channel were applied to different topics, and the call
\* that stored its message first updated the context last.
C28_Witness ==
    \E c \in ChannelIds :
        /\ Len(conversationContext[c].recentMessages) = 2
        /\ conversationContext[c].recentMessages[1].topicId
               # conversationContext[c].recentMessages[2].topicId
        /\ \E i, j \in 1..Len(slackMessages) :
              /\ i < j
              /\ slackMessages[i].channelId = c
              /\ slackMessages[j].channelId = c
              /\ slackMessages[i].timestamp # slackMessages[j].timestamp
              /\ slackMessages[i].timestamp
                     = conversationContext[c].recentMessages[2].timestamp
              /\ slackMessages[j].timestamp
                     = conversationContext[c].recentMessages[1].timestamp

\* The number of entries of seq that are x.
Occurrences(seq, x) == Cardinality({i \in 1..Len(seq) : seq[i] = x})

\* Topic t was created by a call that has returned its result, and no other
\* call has named t (returned, failed or in flight).
CreatedAndUntouched(t) ==
    /\ topics[t].createdBy \in 1..Len(results)
    /\ results[topics[t].createdBy].kind = "result"
    /\ \A k \in 1..Len(results) : k # topics[t].createdBy => results[k].topicId # t
    /\ \A p \in Procs : local[p].topicId # t

\* C29: after a "create" Decision for message m has been applied and no other
\* message has touched the new topic, the topic has messageCount 1, users
\* holding m's user only, and sampleMessages holding m's text exactly once.
C29_CreatedTopicHoldsItsMessageOnce ==
    \A t \in 1..Len(topics) :
        CreatedAndUntouched(t)
        => LET m == results[topics[t].createdBy].message
           IN /\ topics[t].messageCount = 1
              /\ topics[t].users = <<UserName(m)>>
              /\ Occurrences(topics[t].sampleMessages,
                             truncate(m.text, SampleTruncateLength)) = 1

\* The SlackMessage i was applied: it is of the history or of a call that has
\* returned its result.
IsApplied(i) ==
    \/ slackMessages[i].createdBy = 0
    \/ results[slackMessages[i].createdBy].kind = "result"

\* The ids of the applied messages of topic t and of channel c, in the order
\* they were stored (which, for calls made one after the other, is the order
\* they were applied in).
AppliedToTopic(t) ==
    SelectSeq([i \in 1..Len(slackMessages) |-> i],
              LAMBDA i : IsApplied(i) /\ slackMessages[i].topic = t)

AppliedOnChannel(c) ==
    SelectSeq([i \in 1..Len(slackMessages) |-> i],
              LAMBDA i : IsApplied(i) /\ slackMessages[i].channelId = c)

\* No call is in flight.
Quiescent == \A p \in Procs : pc[p] = "idle"

\* C23: after any sequence of APPLYs every topic's sampleMessages holds at
\* most 10 entries, which are the most recently applied messages of the topic
\* in the order they were applied, newest last.
C23_SamplesAreLatestApplied ==
    Quiescent =>
        \A t \in 1..Len(topics) :
            /\ Len(topics[t].sampleMessages) <= MaxSampleMessages
            /\ topics[t].sampleMessages =
                   LastN([i \in 1..Len(AppliedToTopic(t)) |->
                             truncate(slackMessages[AppliedToTopic(t)[i]].text,
                                      SampleTruncateLength)],
                         MaxSampleMessages)

\* The entry of recentMessages that the SlackMessage i stands for, without its
\* topic name.
ActivityOf(i) ==
    [text |-> slackMessages[i].text, user |-> slackMessages[i].user,
     timestamp |-> slackMessages[i].timestamp, topicId |-> slackMessages[i].topic]

WithoutTopicName(entry) ==
    [text |-> entry.text, user |-> entry.user, timestamp |-> entry.timestamp,
     topicId |-> entry.topicId]

\* C24: after any sequence of APPLYs on a channel its recentMessages holds at
\* most 20 entries, which are the 20 most recently applied messages of the
\* channel in the order they were applied.
C24_RecentAreLatestApplied ==
    \A c \in ChannelIds :
        /\ Len(conversationContext[c].recentMessages) <= MaxRecentMessages
        /\ [i \in 1..Len(conversationContext[c].recentMessages) |->
               WithoutTopicName(conversationContext[c].recentMessages[i])]
           = LastN([i \in 1..Len(AppliedOnChannel(c)) |->
                       ActivityOf(AppliedOnChannel(c)[i])],
                   MaxRecentMessages)

\* A call of the behaviour was applied on a channel that held 20 entries: the
\* oldest one was evicted.
C24_Witness ==
    \E c \in ChannelIds :
        /\ Len(AppliedOnChannel(c)) > MaxRecentMessages
        /\ Len(conversationContext[c].recentMessages) = MaxRecentMessages
        /\ \E k \in 1..Len(results) :
              results[k].kind = "result"
              /\ slackMessages[results[k].messageId].channelId = c

\* The id of the message that was applied last (0: none was).
LastAppliedId ==
    LET ids == SelectSeq([i \in 1..Len(slackMessages) |-> i], IsApplied)
    IN IF Len(ids) = 0 THEN 0 ELSE ids[Len(ids)]

\* C25: after a successful APPLY of message m to topic t, t's messageCount is
\* one more than before (it counts the applied messages of t), m's truncated
\* text is the newest entry of t's sampleMessages, m's user is among t's
\* users, and the channel's context has t as current topic and m as the newest
\* entry of its recentMessages.
C25_AppliedMessageIsRecorded ==
    /\ \A t \in 1..Len(topics) : topics[t].messageCount = Len(AppliedToTopic(t))
    /\ LastAppliedId # 0 =>
          LET m == slackMessages[LastAppliedId]
          IN /\ Len(topics[m.topic].sampleMessages) > 0
             /\ topics[m.topic].sampleMessages[Len(topics[m.topic].sampleMessages)]
                    = truncate(m.text, SampleTruncateLength)
             /\ Includes(topics[m.topic].users, m.userName)
             /\ conversationContext[m.channelId].exists
             /\ conversationContext[m.channelId].currentTopicId = m.topic
             /\ WithoutTopicName(Newest(m.channelId)) = ActivityOf(LastAppliedId)

\* A call of the behaviour has applied a message that is longer than a sample
\* may be, and another one to a topic whose sampleMessages were full.
C25_Witness ==
    /\ \E k \in 1..Len(results) :
          /\ results[k].kind = "result"
          /\ Len(results[k].message.text) > SampleTruncateLength
    /\ \E k \in 1..Len(results) :
          /\ results[k].kind = "result"
          /\ topics[results[k].topicId].messageCount > MaxSampleMessages

====
